---- MODULE Spec2Model ----
(***************************************************************************)
(* Asset acquisition pipeline of the course manager: the per-episode       *)
(* asset status machine driven by the download pipeline task, the          *)
(* per-episode download / process / upload / retry endpoints, the bulk     *)
(* retry endpoint and the link matcher's application of a link.            *)
(*                                                                         *)
(* `episodes` is the persisted episodes table of one course (every write   *)
(* below is followed by db.commit() in the source before control can       *)
(* leave the handler or reach engine.download / processor.process).        *)
(* `job` is the position of the single worker: callers serialise the       *)
(* handlers of one course, so a handler starts only when the worker is     *)
(* idle.  A worker that is inside engine.download or processor.process     *)
(* can be terminated (Terminate), which leaves the table as committed.     *)
(***************************************************************************)
EXTENDS Integers, Sequences, FiniteSets, TLC

VARIABLES episodes, course, job, calls, probe, catalog

vars == <<episodes, course, job, calls, probe, catalog>>

\* ---------------------------------------------------------------- bounds
\* Number of requests and tasks started in one behaviour (this also caps
\* retry_count and the last_attempt_at stamps, which the program never caps).
MaxCalls == 3
\* Longest link batch submitted in one request.
MaxBatch == 1
\* Longest error text, in words.
MaxWords == 2
\* Longest link batch submitted to the catalog.
MaxLinks == 2
\* Scrapes, title edits, download runs and link submissions on the catalog.
MaxSubmissions == 3
\* The largest file size and the largest chunk of a response, in bytes.
MaxSize == 4
MaxChunk == 2
\* The most cues of a subtitle file and the latest time of a cue, in
\* milliseconds.
MaxCues == 3
MaxTime == 3
\* The largest configured shift, forwards or backwards, in milliseconds.
MaxShift == 2
\* The longest query string, in pieces, and the longest pasted text, in
\* whitespace-separated items.
MaxQuery == 3
MaxText == 2
\* Tasks dispatched one after the other in one behaviour.
MaxDispatches == 2
\* The episode rows of a course handed to the duplicate merge.
MaxRows == 3
\* The longest stem of a filename, in characters.
MaxStem == 5

\* The course under study: two scraped episodes, numbered 1 and 2.
EpisodeIds == {1, 2}

\* ---------------------------------------------------------------- enums
PENDING == "pending"
DOWNLOADING == "downloading"
DOWNLOADED == "downloaded"
PROCESSING == "processing"
PROCESSED == "processed"
UPLOADING == "uploading"
UPLOADED == "uploaded"
ERROR == "error"
SKIPPED == "skipped"
NOT_AVAILABLE == "not_available"

AssetStatus ==
    {PENDING, DOWNLOADING, DOWNLOADED, PROCESSING, PROCESSED, UPLOADING,
     UPLOADED, ERROR, SKIPPED, NOT_AVAILABLE}

\* The three asset kinds, in the order every handler visits them.
AssetKinds == <<"video", "subtitle", "exercise">>
Kinds == {"video", "subtitle", "exercise"}

\* ---------------------------------------------------------------- messages
None == "None"
EXPIRED_LINK_ERROR_PREFIX == "LINK_EXPIRED"
EXPIRED_LINK_ERROR_MESSAGE == "LINK_EXPIRED: Download link has expired. Please provide new links."

\* str.startswith(EXPIRED_LINK_ERROR_PREFIX) over the messages the program writes.
StartsWithExpiredPrefix(message) == message = EXPIRED_LINK_ERROR_MESSAGE

DownloadFailedMessage(kind) ==
    CASE kind = "video" -> "Video download failed"
      [] kind = "subtitle" -> "Subtitle download failed"
      [] OTHER -> "Exercise download failed"

\* build_download_error_message(asset_label, exc, url); `expired` is the
\* verdict of is_expired_link_error(exc, url).
build_download_error_message(kind, expired) ==
    IF expired THEN EXPIRED_LINK_ERROR_MESSAGE ELSE DownloadFailedMessage(kind)

ValidationFailedMessage(kind) ==
    IF kind = "video" THEN "Video validation failed after download"
    ELSE "Subtitle validation failed after download"

ProcessingFailedMessage == "Subtitle processing failed"
UploadSkippedMessage == "Upload skipped: local video file is missing."
UploadFailedMessage == "Upload failed"

\* ---------------------------------------------------------------- records
\* A freshly scraped episode: column defaults of the Episode model.
\* download_url, local_path, subtitle_processed_path and last_attempt_at
\* hold TRUE when the column is non-null.
NewEpisode(number) ==
    [episode_number |-> number,
     status |-> [k \in Kinds |-> IF k = "exercise" THEN NOT_AVAILABLE ELSE PENDING],
     download_url |-> [k \in Kinds |-> FALSE],
     local_path |-> [k \in Kinds |-> FALSE],
     subtitle_processed_path |-> FALSE,
     error_message |-> None,
     retry_count |-> 0,
     last_attempt_at |-> FALSE]

\* The worker's position.  op: the handler that runs; phase: "downloading"
\* inside engine.download, "processing" inside processor.process, "done"
\* once the handler has returned, "terminated" once the worker was killed;
\* eps: the episodes the handler iterates; pos: the slot (episode, asset
\* kind) or the episode in hand; attempted: the slots for which
\* engine.download or processor.process was invoked; results: what each of
\* these calls did, as <<episode, kind, outcome>>; snapshot: the table when
\* the handler began; applied, reset, retried: the request's apply_changes
\* and the retry endpoints' responses; expired: the course's expiry flag
\* when the handler began; warnings: the 'Download links have expired'
\* warnings the handler has logged; matched: result.matched of the link
\* matcher.
Idle ==
    [op |-> "idle", phase |-> "idle", eps |-> <<>>, pos |-> 0,
     attempted |-> {}, results |-> {}, snapshot |-> <<>>,
     applied |-> FALSE, reset |-> <<>>, retried |-> 0,
     expired |-> FALSE, warnings |-> 0, matched |-> 0]

\* No helper function is under call, no link catalog is under study.
NoProbe == [fn |-> "none"]
NoCatalog == [op |-> "none"]

\* The table, the course row and the worker at the start of a behaviour.
Pipeline0 ==
    /\ episodes = [e \in EpisodeIds |-> NewEpisode(e)]
    /\ course = [links_expired |-> FALSE, debug_mode |-> FALSE]
    /\ job = Idle
    /\ calls = 0

Init ==
    /\ Pipeline0
    /\ probe = NoProbe
    /\ catalog = NoCatalog

\* A request or task is accepted: the worker is idle.
Accept ==
    /\ job.op = "idle"
    /\ calls < MaxCalls
    /\ calls' = calls + 1
    /\ UNCHANGED <<probe, catalog>>

\* ---------------------------------------------------------------- download
\* What one engine.download call followed by the validator can do.
Outcomes == {"valid", "invalid", "raise", "raise_expired"}

\* The slots of a run over `eps`: each episode's video, subtitle, exercise.
Slots(eps) ==
    [i \in 1..(3 * Len(eps)) |->
        <<eps[((i - 1) \div 3) + 1], AssetKinds[((i - 1) % 3) + 1]>>]

\* _episode_sort_key: (episode_number, or 10**9 when null; sort_order).
\* Episode numbers are distinct and non-null here, so the key orders by number.
SortedEpisodes(table) ==
    LET ids == DOMAIN table
        Before(a, b) == table[a].episode_number < table[b].episode_number
        Rank(e) == Cardinality({x \in ids : Before(x, e)}) + 1
    IN  [i \in 1..Cardinality(ids) |-> CHOOSE e \in ids : Rank(e) = i]

\* Guard of one asset block of the pipeline task.
PipelineEligible(ep, kind) ==
    ep.download_url[kind] /\ ep.status[kind] \in {PENDING, ERROR}

\* Guard of one asset block of the per-episode download endpoint.
EndpointEligible(ep, kind) == ep.download_url[kind]

DownloadGuard(op, ep, kind) ==
    IF op = "process_course" THEN PipelineEligible(ep, kind)
    ELSE EndpointEligible(ep, kind)

\* BeginDownload with the status assignment left out of the commit that
\* precedes the engine call.
BeginDownloadUncommitted(ep, kind) ==
    [ep EXCEPT !.error_message = None, !.last_attempt_at = TRUE]

\* The assignments committed before engine.download is called.
BeginDownload(ep, kind) ==
    [ep EXCEPT !.status[kind] = DOWNLOADING,
               !.error_message = None,
               !.last_attempt_at = TRUE]

\* try / except / finally around engine.download in the pipeline task.
PipelineFinish(ep, kind, outcome) ==
    IF outcome \in {"valid", "invalid"}
    THEN LET ok == kind = "exercise" \/ outcome = "valid"
         IN  [ep EXCEPT !.local_path[kind] = TRUE,
                        !.status[kind] = IF ok THEN DOWNLOADED ELSE ERROR,
                        !.error_message =
                            IF ok THEN @ ELSE ValidationFailedMessage(kind),
                        !.retry_count = @ + 1]
    ELSE [ep EXCEPT !.status[kind] = ERROR,
                    !.error_message =
                        build_download_error_message(kind, outcome = "raise_expired"),
                    !.retry_count = @ + 1]

\* try / except / finally around engine.download in the download endpoint.
EndpointFinish(ep, kind, outcome) ==
    IF outcome \in {"valid", "invalid"}
    THEN LET ok == kind = "exercise" \/ outcome = "valid"
         IN  [ep EXCEPT !.local_path[kind] = TRUE,
                        !.status[kind] = IF ok THEN DOWNLOADED ELSE ERROR,
                        !.retry_count = @ + 1]
    ELSE [ep EXCEPT !.status[kind] = ERROR,
                    !.error_message =
                        build_download_error_message(kind, outcome = "raise_expired"),
                    !.retry_count = @ + 1]

\* FinishDownload with `retry_count += 1` inside the try block instead of
\* the finally block: an attempt that raises is not counted.
FinishDownloadCountsInTry(op, ep, kind, outcome) ==
    LET done == IF op = "process_course" THEN PipelineFinish(ep, kind, outcome)
                ELSE EndpointFinish(ep, kind, outcome)
    IN  IF outcome \in {"valid", "invalid"} THEN done
        ELSE [done EXCEPT !.retry_count = ep.retry_count]

FinishDownload(op, ep, kind, outcome) ==
    IF op = "process_course" THEN PipelineFinish(ep, kind, outcome)
    ELSE EndpointFinish(ep, kind, outcome)

\* mark_course_links_expired: the flag is set whether or not it was set.
mark_course_links_expired(c) == [c EXCEPT !.links_expired = TRUE]

\* `not already_expired`, the value mark_course_links_expired returns.
first_time(c) == ~c.links_expired

\* mark_links_expired_once without the first_time test.
mark_links_expired_always(c, outcome) ==
    IF outcome = "raise_expired" THEN 1 ELSE 0

\* The warnings logged by the except block of an attempt: one when the
\* failure is classified as expired and the flag was not set.
mark_links_expired_once(c, outcome) ==
    IF outcome = "raise_expired" /\ first_time(c) THEN 1 ELSE 0

\* The first slot at or after `from` whose guard holds in `table`; 0 if none.
NextSlot(op, table, eps, from) ==
    LET slots == Slots(eps)
        open == {i \in from..Len(slots) :
                    DownloadGuard(op, table[slots[i][1]], slots[i][2])}
    IN  IF open = {} THEN 0 ELSE CHOOSE i \in open : \A j \in open : i <= j

\* Run the handler from slot `from` up to its next engine.download call, or
\* to its end: the blocks whose guard fails are passed over, the first block
\* whose guard holds commits `downloading` and calls the engine.
Advance(j, table, from) ==
    LET n == NextSlot(j.op, table, j.eps, from)
        slot == Slots(j.eps)[n]
    IN  IF n = 0
        THEN /\ episodes' = table
             /\ job' = [j EXCEPT !.phase = "done", !.pos = 0]
        ELSE /\ episodes' =
                    [table EXCEPT ![slot[1]] = BeginDownload(@, slot[2])]
             /\ job' = [j EXCEPT !.phase = "downloading", !.pos = n,
                                 !.attempted = @ \union {slot}]

\* process_course_task: the episodes sorted, the first one only in debug mode.
process_course_task ==
    /\ Accept
    /\ LET sorted == SortedEpisodes(episodes)
           eps == IF course.debug_mode THEN SubSeq(sorted, 1, 1) ELSE sorted
       IN  Advance([Idle EXCEPT !.op = "process_course", !.eps = eps,
                                   !.snapshot = episodes,
                                   !.expired = course.links_expired],
                   episodes, 1)
    /\ UNCHANGED course

\* POST /episodes/{id}/download/
download_episode_assets(e) ==
    /\ Accept
    /\ Advance([Idle EXCEPT !.op = "download_episode", !.eps = <<e>>,
                            !.snapshot = episodes,
                            !.expired = course.links_expired],
               episodes, 1)
    /\ UNCHANGED course

\* DownloadReturn without the `except Exception` clause: an engine error
\* ends the handler.
DownloadReturnAborting(outcome) ==
    /\ UNCHANGED <<calls, probe, catalog>>
    /\ job.phase = "downloading"
    /\ LET slot == Slots(job.eps)[job.pos]
           table == [episodes EXCEPT
                        ![slot[1]] = FinishDownload(job.op, @, slot[2], outcome)]
           j == [job EXCEPT !.results = @ \union {<<slot[1], slot[2], outcome>>},
                            !.warnings = @ + mark_links_expired_once(course, outcome)]
       IN  /\ IF outcome \in {"raise", "raise_expired"}
              THEN /\ episodes' = table
                   /\ job' = [j EXCEPT !.phase = "done", !.pos = 0]
              ELSE Advance(j, table, job.pos + 1)
           /\ course' = IF outcome = "raise_expired"
                        THEN mark_course_links_expired(course) ELSE course

\* engine.download returns or raises: the final status and retry_count are
\* committed and the handler runs on to its next engine call or to its end.
DownloadReturn(outcome) ==
    /\ UNCHANGED <<calls, probe, catalog>>
    /\ job.phase = "downloading"
    /\ LET slot == Slots(job.eps)[job.pos]
           table == [episodes EXCEPT
                        ![slot[1]] = FinishDownload(job.op, @, slot[2], outcome)]
       IN  /\ Advance([job EXCEPT
                          !.results = @ \union {<<slot[1], slot[2], outcome>>},
                          !.warnings = @ + mark_links_expired_once(course, outcome)],
                      table, job.pos + 1)
           /\ course' = IF outcome = "raise_expired"
                        THEN mark_course_links_expired(course) ELSE course

\* The worker is terminated inside engine.download or processor.process:
\* nothing more is committed.
Terminate ==
    /\ job.phase \in {"downloading", "processing"}
    /\ job' = [job EXCEPT !.phase = "terminated"]
    /\ UNCHANGED <<episodes, course, calls, probe, catalog>>

\* The handler has returned, or the terminated worker is gone: the next
\* request or task can be served.
Return ==
    /\ job.phase \in {"done", "terminated"}
    /\ job' = Idle
    /\ UNCHANGED <<episodes, course, calls, probe, catalog>>

\* A handler that ran to its end in one step: its response is pending.
Done(op, eps) ==
    [Idle EXCEPT !.op = op, !.phase = "done", !.eps = eps,
                 !.snapshot = episodes,
                 !.expired = course.links_expired]

\* ---------------------------------------------------------------- retry
\* The kinds of `ep` in error, in the order the handler tests them.
ErrorKinds(ep) == SelectSeq(AssetKinds, LAMBDA k : ep.status[k] = ERROR)

\* ResetErrors that also wipes the recorded failure.
ResetErrorsAndMessage(ep) ==
    [ep EXCEPT !.status =
                  [k \in Kinds |-> IF ep.status[k] = ERROR THEN PENDING ELSE ep.status[k]],
               !.error_message = None]

\* The three tests of retry_episode / of one iteration of retry_all_failed.
ResetErrors(ep) ==
    [ep EXCEPT !.status =
        [k \in Kinds |-> IF ep.status[k] = ERROR THEN PENDING ELSE ep.status[k]]]

\* POST /episodes/{id}/retry/
retry_episode(e) ==
    /\ Accept
    /\ episodes' = [episodes EXCEPT ![e] = ResetErrors(@)]
    /\ job' = [Done("retry_episode", <<e>>) EXCEPT
                  !.reset = ErrorKinds(episodes[e])]
    /\ UNCHANGED course

RECURSIVE SumErrors(_, _)
SumErrors(table, ids) ==
    IF ids = {} THEN 0
    ELSE LET e == CHOOSE x \in ids : TRUE
         IN  Len(ErrorKinds(table[e])) + SumErrors(table, ids \ {e})

\* POST /courses/{id}/retry-all-failed/
retry_all_failed ==
    /\ Accept
    /\ episodes' = [e \in DOMAIN episodes |-> ResetErrors(episodes[e])]
    /\ job' = [Done("retry_all_failed", SortedEpisodes(episodes)) EXCEPT
                  !.retried = SumErrors(episodes, DOMAIN episodes)]
    /\ UNCHANGED course

\* ---------------------------------------------------------------- processing
\* The subtitle block's guard in the process endpoint; `exists` is
\* Path(subtitle_local_path).exists().
EndpointProcessGuard(ep, exists) == ep.local_path["subtitle"] /\ exists

\* The three `continue` tests of process_subtitles_task.
TaskProcessGuard(ep, exists) ==
    /\ ep.status["subtitle"] = DOWNLOADED
    /\ ep.local_path["subtitle"]
    /\ exists

BeginProcess(ep) == [ep EXCEPT !.status["subtitle"] = PROCESSING]

\* try / except around processor.process (the same in both handlers).
FinishProcess(ep, ok) ==
    IF ok
    THEN [ep EXCEPT !.subtitle_processed_path = TRUE,
                    !.status["subtitle"] = PROCESSED]
    ELSE [ep EXCEPT !.status["subtitle"] = ERROR,
                    !.error_message = ProcessingFailedMessage]

\* The video and exercise blocks that end the process endpoint.
ProcessTail(ep) ==
    [ep EXCEPT !.status =
        [k \in Kinds |->
            IF k # "subtitle" /\ ep.status[k] = DOWNLOADED
            THEN PROCESSED ELSE ep.status[k]]]

\* POST /episodes/{id}/process/
process_episode_assets(e, exists) ==
    /\ Accept
    /\ IF EndpointProcessGuard(episodes[e], exists)
       THEN /\ episodes' = [episodes EXCEPT ![e] = BeginProcess(@)]
            /\ job' = [Done("process_episode", <<e>>) EXCEPT
                          !.phase = "processing", !.pos = 1,
                          !.attempted = {<<e, "subtitle">>}]
       ELSE /\ episodes' = [episodes EXCEPT ![e] = ProcessTail(@)]
            /\ job' = Done("process_episode", <<e>>)
    /\ UNCHANGED course

\* process_subtitles_task from the episode at index `from`, up to its next
\* processor.process call or to its end; `present` are the episodes whose
\* original subtitle file is on disk.
AdvanceSubtitles(j, table, from, present) ==
    LET open == {i \in from..Len(j.eps) :
                    TaskProcessGuard(table[j.eps[i]], j.eps[i] \in present)}
        n == CHOOSE i \in open : \A x \in open : i <= x
    IN  IF open = {}
        THEN /\ episodes' = table
             /\ job' = [j EXCEPT !.phase = "done", !.pos = 0]
        ELSE /\ episodes' = [table EXCEPT ![j.eps[n]] = BeginProcess(@)]
             /\ job' = [j EXCEPT !.phase = "processing", !.pos = n,
                                 !.attempted = @ \union {<<j.eps[n], "subtitle">>}]

process_subtitles_task(present) ==
    /\ Accept
    /\ AdvanceSubtitles([Idle EXCEPT !.op = "process_subtitles",
                                     !.eps = SortedEpisodes(episodes),
                                     !.snapshot = episodes,
                                     !.expired = course.links_expired],
                        episodes, 1, present)
    /\ UNCHANGED course

\* processor.process returns (ok) or raises.
ProcessReturn(ok, present) ==
    /\ UNCHANGED <<calls, probe, catalog>>
    /\ job.phase = "processing"
    /\ LET e == job.eps[job.pos]
           j == [job EXCEPT !.results =
                    @ \union {<<e, "subtitle", IF ok THEN "valid" ELSE "raise">>}]
           table == [episodes EXCEPT ![e] = FinishProcess(@, ok)]
       IN  IF job.op = "process_episode"
           THEN /\ episodes' = [table EXCEPT ![e] = ProcessTail(@)]
                /\ job' = [j EXCEPT !.phase = "done", !.pos = 0]
           ELSE AdvanceSubtitles(j, table, job.pos + 1, present)
    /\ UNCHANGED course

\* ---------------------------------------------------------------- links
FileTypes == {"video", "subtitle", "exercise", "unknown"}

\* The parsed links of a batch: the episode number and the file type decide
\* what the matcher does to the asset fields.
ParsedLinks == [episode_number : EpisodeIds, file_type : FileTypes]

\* The list of a set of links, ordered by episode number and file type.
RECURSIVE AsList(_)
AsList(links) ==
    IF links = {} THEN <<>>
    ELSE LET Key(l) == 4 * l.episode_number
                         + (CASE l.file_type = "video" -> 0
                              [] l.file_type = "subtitle" -> 1
                              [] l.file_type = "exercise" -> 2
                              [] OTHER -> 3)
             first == CHOOSE l \in links : \A m \in links : Key(l) <= Key(m)
         IN  <<first>> \o AsList(links \ {first})

\* The batches of at most MaxBatch links.  Two links of one batch differ in
\* episode number or file type, and a batch is listed in that order: what
\* the matcher writes for one link does not depend on the links before it.
Batches ==
    {AsList(links) : links \in {b \in SUBSET ParsedLinks :
                                    Cardinality(b) \in 1..MaxBatch}}

\* LinkMatcher._match_episode by episode number (by_number.get): the id of
\* the episode that carries the link's number, 0 when there is none.
MatchEpisode(table, link) ==
    LET hits == {e \in DOMAIN table :
                    table[e].episode_number = link.episode_number}
    IN  IF hits = {} THEN 0 ELSE CHOOSE e \in hits : TRUE

\* LinkMatcher._apply_to_episode: asset fields and the expired-link marker.
ApplyToEpisode(ep, link) ==
    LET k == link.file_type
        applied ==
            IF k \in Kinds
            THEN [ep EXCEPT !.download_url[k] = TRUE,
                            !.status[k] =
                                IF @ \in {ERROR, DOWNLOADED} THEN PENDING ELSE @]
            ELSE ep
    IN  [applied EXCEPT !.error_message =
            IF StartsWithExpiredPrefix(@) THEN None ELSE @]

\* The loop of LinkMatcher.apply with apply_changes = true.
RECURSIVE ApplyLinks(_, _, _)
ApplyLinks(table, links, i) ==
    IF i > Len(links) THEN table
    ELSE LET target == MatchEpisode(table, links[i])
         IN  ApplyLinks(IF target = 0 THEN table
                        ELSE [table EXCEPT ![target] = ApplyToEpisode(@, links[i])],
                        links, i + 1)

\* result.matched of LinkMatcher.apply.
Matched(table, links) ==
    Cardinality({i \in 1..Len(links) : MatchEpisode(table, links[i]) # 0})

clear_course_links_expired(c) == [c EXCEPT !.links_expired = FALSE]

\* POST /courses/{id}/links/ : the episode numbers of the table are
\* distinct, so the duplicate merge that opens the handler finds no group.
add_or_update_links(links, apply_changes) ==
    /\ Accept
    /\ IF apply_changes
       THEN /\ episodes' = ApplyLinks(episodes, links, 1)
            /\ course' = IF Matched(episodes, links) > 0
                         THEN clear_course_links_expired(course) ELSE course
       ELSE UNCHANGED <<episodes, course>>
    /\ job' = [Done("add_or_update_links", <<>>) EXCEPT
                  !.applied = apply_changes,
                  !.matched = Matched(episodes, links)]

\* ---------------------------------------------------------------- upload
\* The rows the upload navigator reports for an episode.
UploadResults ==
    {"uploaded", "uploaded_with_subtitle", "skipped_existing",
     "skipped_missing_video", "error"}

\* _upload_episode_from_units_page: a video is attached only from
\* video_local_path, a subtitle only from the processed .vtt path.
RowPossible(ep, row) ==
    /\ row \in {"uploaded", "uploaded_with_subtitle"} => ep.local_path["video"]
    /\ row = "uploaded_with_subtitle" => ep.subtitle_processed_path

\* The loop over run_results in upload_episode_assets.
ApplyRow(ep, row) ==
    CASE row = "uploaded" ->
            [ep EXCEPT !.status["video"] = UPLOADED, !.error_message = None]
      [] row = "uploaded_with_subtitle" ->
            [ep EXCEPT !.status["video"] = UPLOADED,
                       !.status["subtitle"] = UPLOADED,
                       !.error_message = None]
      [] row = "skipped_existing" -> ep
      [] row = "skipped_missing_video" ->
            [ep EXCEPT !.status["video"] = ERROR,
                       !.error_message = UploadSkippedMessage]
      [] OTHER ->
            [ep EXCEPT !.status["video"] = ERROR,
                       !.error_message = UploadFailedMessage]

\* ordered_episodes[start_index:], the first one only in debug mode.
UploadTargets(e) ==
    LET ordered == SortedEpisodes(episodes)
        start == CHOOSE i \in 1..Len(ordered) : ordered[i] = e
    IN  IF course.debug_mode THEN <<e>>
        ELSE SubSeq(ordered, start, Len(ordered))

\* POST /episodes/{id}/upload/
upload_episode_assets(e) ==
    /\ Accept
    /\ LET targets == UploadTargets(e)
           ids == {targets[i] : i \in 1..Len(targets)}
       IN  \E rows \in [ids -> UploadResults] :
              /\ \A x \in ids : RowPossible(episodes[x], rows[x])
              /\ episodes' = [x \in DOMAIN episodes |->
                                 IF x \in ids THEN ApplyRow(episodes[x], rows[x])
                                 ELSE episodes[x]]
              /\ job' = Done("upload_episode", targets)
    /\ UNCHANGED course

\* scrape_course_metadata on the course row: extra_metadata is replaced by
\* the scraper's metadata, which has no links_expired key.  The curriculum
\* lists the episodes of the table, whose numbers are in existing_numbers.
scrape_course_metadata(c) == [c EXCEPT !.links_expired = FALSE]

\* scrape_course_task; the scraper returns (ok) or raises.
scrape_course_task(ok) ==
    /\ Accept
    /\ course' = IF ok THEN scrape_course_metadata(course) ELSE course
    /\ job' = Done("scrape_course", <<>>)
    /\ UNCHANGED episodes

\* POST /courses/{id}/toggle-debug/
toggle_debug ==
    /\ Accept
    /\ course' = [course EXCEPT !.debug_mode = ~@]
    /\ UNCHANGED <<episodes, job>>

\* ---------------------------------------------------------------- link expiry
\* A query parameter of a URL: not in the query string, in it with a blank
\* value ("token=&..."), or in it with a value.
ParamStates == {"absent", "blank", "value"}

\* A download URL as the classifier sees it: no URL at all (None or ''), or
\* the `token` and `hash` parameters of its query string.
NoUrl == [given |-> FALSE, token |-> "absent", hash |-> "absent"]
Urls == {NoUrl} \union [given : {TRUE}, token : ParamStates, hash : ParamStates]

\* urllib.parse.parse_qs(parsed.query), keep_blank_values left at its
\* default: the keys that carry a non-blank value.
parse_qs(url) == {k \in {"token", "hash"} : url[k] = "value"}

is_tokenized_download_url(url) ==
    IF ~url.given THEN FALSE
    ELSE "token" \in parse_qs(url) /\ "hash" \in parse_qs(url)

\* The words an error text is made of; a text is a list of words.
Words ==
    {"token", "hash", "expired", "invalid", "forbidden", "Forbidden",
     "signature", "timeout"}

\* str.lower() on a word, on a text.
LowerWord(w) == IF w = "Forbidden" THEN "forbidden" ELSE w
Lower(text) == [i \in DOMAIN text |-> LowerWord(text[i])]

\* `hint in message`
Contains(message, hint) ==
    \E i \in 1..(Len(message) - Len(hint) + 1) :
        SubSeq(message, i, i + Len(hint) - 1) = hint

expired_hints ==
    {<<"expired">>, <<"token", "expired">>, <<"invalid", "token">>,
     <<"forbidden">>, <<"signature">>}

\* The HTTP status codes of a failed download; 0 stands for an exception
\* that carries no response (_extract_status_code returns None).
StatusCodes == {0, 401, 403, 404, 410, 500}

\* is_expired_link_error with the tokenized test dropped from the last
\* return: any URL whose error text carries a hint is classified as expired.
is_expired_link_error_any_url(exc, url) ==
    LET message == Lower(exc.message)
        tokenized == is_tokenized_download_url(url)
    IN  IF exc.status_code \in {401, 403, 410} /\ tokenized THEN TRUE
        ELSE IF /\ exc.status_code = 404
                /\ tokenized
                /\ (Contains(message, <<"token">>) \/ Contains(message, <<"hash">>))
        THEN TRUE
        ELSE \E hint \in expired_hints : Contains(message, hint)

is_expired_link_error(exc, url) ==
    LET status_code == exc.status_code
        message == Lower(exc.message)
        tokenized == is_tokenized_download_url(url)
    IN  IF status_code \in {401, 403, 410} /\ tokenized THEN TRUE
        ELSE IF /\ status_code = 404
                /\ tokenized
                /\ (Contains(message, <<"token">>) \/ Contains(message, <<"hash">>))
        THEN TRUE
        ELSE tokenized /\ \E hint \in expired_hints : Contains(message, hint)

\* The error texts of at most MaxWords words.
Texts == UNION {[1..n -> Words] : n \in 0..MaxWords}

\* One call of the classifier on an exception and a URL.
InitExpiry ==
    /\ Pipeline0
    /\ catalog = NoCatalog
    /\ \E status_code \in StatusCodes, message \in Texts, url \in Urls :
          probe = [fn |-> "is_expired_link_error",
                   exc |-> [status_code |-> status_code, message |-> message],
                   url |-> url, returned |-> FALSE, out |-> FALSE]

ExpiryReturn ==
    /\ probe.fn = "is_expired_link_error"
    /\ ~probe.returned
    /\ probe' = [probe EXCEPT !.returned = TRUE,
                              !.out = is_expired_link_error(probe.exc, probe.url)]
    /\ UNCHANGED <<episodes, course, job, calls, catalog>>

NextExpiry == ExpiryReturn

SpecExpiry == InitExpiry /\ [][NextExpiry]_vars

\* ---------------------------------------------------------------- link catalog
\* Value(e, Op) is Op(e) with e computed once.
Value(e, Op(_)) == CHOOSE r \in {Op(x) : x \in {e}} : TRUE

\* Titles are lists of characters.  NoTitle stands for a title that is None
\* or '' (the code only tests titles for truth).
NoTitle == <<>>
\* The titles a PUT /episodes/{id}/ sets.
EpisodeTitles == {NoTitle, <<"I", "N", "T">>}

\* str.lower() and str.strip()
lower_char(c) ==
    CASE c = "I" -> "i" [] c = "N" -> "n" [] c = "T" -> "t" [] OTHER -> c
str_lower(t) == [i \in DOMAIN t |-> lower_char(t[i])]

RECURSIVE str_strip(_)
str_strip(t) ==
    IF t = <<>> THEN t
    ELSE IF Head(t) = " " THEN str_strip(Tail(t))
    ELSE IF t[Len(t)] = " " THEN str_strip(SubSeq(t, 1, Len(t) - 1))
    ELSE t

\* difflib.SequenceMatcher(None, a, b): the longest common block, the
\* earliest in a and then in b among the longest ones; <<1, 1, 0>> if none.
find_longest_match(a, b) ==
    LET blocks == {m \in (1..Len(a)) \X (1..Len(b)) \X (1..Len(a)) :
                      /\ m[1] + m[3] - 1 <= Len(a)
                      /\ m[2] + m[3] - 1 <= Len(b)
                      /\ SubSeq(a, m[1], m[1] + m[3] - 1)
                            = SubSeq(b, m[2], m[2] + m[3] - 1)}
    IN  IF blocks = {} THEN <<1, 1, 0>>
        ELSE CHOOSE m \in blocks : \A x \in blocks :
                \/ m[3] > x[3]
                \/ /\ m[3] = x[3]
                   /\ (m[1] < x[1] \/ (m[1] = x[1] /\ m[2] <= x[2]))

\* The sum of the sizes of get_matching_blocks().
RECURSIVE matching_size(_, _)
matching_size(a, b) ==
    Value(find_longest_match(a, b), LAMBDA m :
        IF m[3] = 0 THEN 0
        ELSE m[3]
             + matching_size(SubSeq(a, 1, m[1] - 1), SubSeq(b, 1, m[2] - 1))
             + matching_size(SubSeq(a, m[1] + m[3], Len(a)),
                             SubSeq(b, m[2] + m[3], Len(b))))

\* ratio() = 2 * matches / (len(a) + len(b)) as the pair <<numerator,
\* denominator>>; RatioLess compares two ratios, RatioAtLeast085 is
\* `best_score >= 0.85`.
ratio(a, b) == <<2 * matching_size(a, b), Len(a) + Len(b)>>
RatioLess(r, q) == r[1] * q[2] < q[1] * r[2]
RatioAtLeast085(r) == 100 * r[1] >= 85 * r[2]

\* A decoded filename: its three-digit prefix (0: none), the text after the
\* prefix, the -xxxx-git.ir hash code ("": none) and its suffix.
NoFile == [number |-> 0, title |-> <<>>, hash |-> "", suffix |-> ""]
lower_suffix(x) == IF x = ".MP4" THEN ".mp4" ELSE x
filename_lower(f) ==
    [f EXCEPT !.title = str_lower(@), !.suffix = lower_suffix(@)]

\* link_parser.detect_file_type: <<file_type, subtitle_language>>
detect_file_type(f) ==
    LET lower == lower_suffix(f.suffix)
    IN  CASE lower = ".fa.srt" -> <<"subtitle", "fa">>
          [] lower = ".pdf" -> <<"exercise", None>>
          [] lower = ".mp4" -> <<"video", None>>
          [] OTHER -> <<"unknown", None>>

\* link_parser.extract_episode_info: <<episode_number, episode_title>>,
\* <<0, NoTitle>> for (None, None).
extract_episode_info(f) ==
    IF f.number = 0 THEN <<0, NoTitle>> ELSE <<f.number, f.title>>

\* link_parser.parse_link on a URL whose filename parameter decodes to f.
parse_link(url, f) ==
    [url |-> url,
     decoded_filename |-> f,
     episode_number |-> extract_episode_info(f)[1],
     episode_title |-> extract_episode_info(f)[2],
     hash_code |-> f.hash,
     file_type |-> detect_file_type(f)[1],
     subtitle_language |-> detect_file_type(f)[2]]

\* The links submitted to the catalog: 001-int.mp4, 001-int-abcd-git.ir.fa.srt,
\* 001-INT.MP4, 002-into.mp4, 002-set.fa.srt and set.pdf, each under its
\* own URL.
CatalogLinks ==
    {parse_link("u1", [number |-> 1, title |-> <<"i", "n", "t">>, hash |-> "", suffix |-> ".mp4"]),
     parse_link("u2", [number |-> 1, title |-> <<"i", "n", "t">>, hash |-> "abcd", suffix |-> ".fa.srt"]),
     parse_link("u3", [number |-> 1, title |-> <<"I", "N", "T">>, hash |-> "", suffix |-> ".MP4"]),
     parse_link("u4", [number |-> 2, title |-> <<"i", "n", "t", "o">>, hash |-> "", suffix |-> ".mp4"]),
     parse_link("u5", [number |-> 2, title |-> <<"s", "e", "t">>, hash |-> "", suffix |-> ".fa.srt"]),
     parse_link("u6", [number |-> 0, title |-> <<"s", "e", "t">>, hash |-> "", suffix |-> ".pdf"])}

\* parse_bulk_links(payload.raw_links): the batches of at most MaxLinks links.
CatalogBatches == UNION {[1..n -> CatalogLinks] : n \in 1..MaxLinks}

\* An episode row with the columns the scraper, the matcher and the
\* duplicate merge read and write; episode_number 0 stands for None,
\* download_url "" for None.
NewRow(id, number, title) ==
    [id |-> id,
     episode_number |-> number,
     title_en |-> title,
     filename |-> [k \in Kinds |-> NoFile],
     download_url |-> [k \in Kinds |-> ""],
     subtitle_language |-> None,
     hash_code |-> "",
     sort_order |-> number,
     status |-> [k \in Kinds |-> IF k = "exercise" THEN NOT_AVAILABLE ELSE PENDING]]

NextId(rows) ==
    IF rows = <<>> THEN 1
    ELSE 1 + (CHOOSE x \in {rows[i].id : i \in DOMAIN rows} :
                  \A i \in DOMAIN rows : rows[i].id <= x)

Last(set) == CHOOSE x \in set : \A y \in set : y <= x

\* by_number of LinkMatcher.apply: episode number -> index of the row in
\* `episodes` (0: no entry); the last row of a number wins.
by_number_of(rows) ==
    [n \in {1, 2} |->
        LET hits == {i \in DOMAIN rows : rows[i].episode_number = n}
        IN  IF hits = {} THEN 0 ELSE Last(hits)]

\* The keys a row puts into by_filename.
FilenameKeys(row) ==
    {filename_lower(row.filename[k]) : k \in {x \in Kinds : row.filename[x] # NoFile}}

\* by_filename of LinkMatcher.apply: lower-cased filename -> index of the row.
by_filename_of(rows) ==
    [key \in UNION {FilenameKeys(rows[i]) : i \in DOMAIN rows} |->
        Last({i \in DOMAIN rows : key \in FilenameKeys(rows[i])})]

update_filename_index(by_filename, i, row) ==
    [key \in DOMAIN by_filename \union FilenameKeys(row) |->
        IF key \in FilenameKeys(row) THEN i ELSE by_filename[key]]

title_matches(episode_title, parsed_title) ==
    IF episode_title = NoTitle \/ parsed_title = NoTitle THEN FALSE
    ELSE str_lower(str_strip(episode_title)) = str_lower(str_strip(parsed_title))

\* match_episode that looks up the episode number before the filename.
match_episode_number_first(link, rows, by_number, by_filename) ==
    LET filename_key == filename_lower(link.decoded_filename)
        candidate == IF link.episode_number = 0 THEN 0
                     ELSE by_number[link.episode_number]
        titled == {i \in DOMAIN rows : rows[i].title_en # NoTitle}
    IN  IF candidate # 0 THEN [target |-> candidate, how |-> "number"]
        ELSE IF filename_key \in DOMAIN by_filename
        THEN [target |-> by_filename[filename_key], how |-> "filename"]
        ELSE IF link.episode_title # NoTitle /\ titled # {}
        THEN Value({<<ratio(str_lower(rows[i].title_en),
                            str_lower(link.episode_title)), i>> : i \in titled},
                   LAMBDA scores :
                LET best == CHOOSE p \in scores : \A q \in scores :
                                \/ RatioLess(q[1], p[1])
                                \/ (~RatioLess(p[1], q[1]) /\ p[2] <= q[2])
                IN  IF RatioAtLeast085(best[1])
                    THEN [target |-> best[2], how |-> "title"]
                    ELSE [target |-> 0, how |-> "none"])
        ELSE [target |-> 0, how |-> "none"]

\* match_episode that accepts the best title whatever its ratio.
match_episode_any_ratio(link, rows, by_number, by_filename) ==
    LET filename_key == filename_lower(link.decoded_filename)
        candidate == IF link.episode_number = 0 THEN 0
                     ELSE by_number[link.episode_number]
        titled == {i \in DOMAIN rows : rows[i].title_en # NoTitle}
    IN  IF filename_key \in DOMAIN by_filename
        THEN [target |-> by_filename[filename_key], how |-> "filename"]
        ELSE IF link.episode_number = 0 THEN [target |-> 0, how |-> "none"]
        ELSE IF /\ candidate # 0
                /\ title_matches(rows[candidate].title_en, link.episode_title)
        THEN [target |-> candidate, how |-> "number_title"]
        ELSE IF candidate # 0 THEN [target |-> candidate, how |-> "number"]
        ELSE IF link.episode_title # NoTitle /\ titled # {}
        THEN Value({<<ratio(str_lower(rows[i].title_en),
                            str_lower(link.episode_title)), i>> : i \in titled},
                   LAMBDA scores :
                LET best == CHOOSE p \in scores : \A q \in scores :
                                \/ RatioLess(q[1], p[1])
                                \/ (~RatioLess(p[1], q[1]) /\ p[2] <= q[2])
                IN  [target |-> best[2], how |-> "title"])
        ELSE [target |-> 0, how |-> "none"]

\* LinkMatcher._match_episode: the index of the resolved row (0: None) and
\* the lookup that resolved it.
match_episode(link, rows, by_number, by_filename) ==
    LET filename_key == filename_lower(link.decoded_filename)
        candidate == IF link.episode_number = 0 THEN 0
                     ELSE by_number[link.episode_number]
        titled == {i \in DOMAIN rows : rows[i].title_en # NoTitle}
    IN  IF filename_key \in DOMAIN by_filename
        THEN [target |-> by_filename[filename_key], how |-> "filename"]
        ELSE IF link.episode_number = 0 THEN [target |-> 0, how |-> "none"]
        ELSE IF /\ candidate # 0
                /\ title_matches(rows[candidate].title_en, link.episode_title)
        THEN [target |-> candidate, how |-> "number_title"]
        ELSE IF candidate # 0 THEN [target |-> candidate, how |-> "number"]
        ELSE IF link.episode_title # NoTitle /\ titled # {}
        THEN Value({<<ratio(str_lower(rows[i].title_en),
                            str_lower(link.episode_title)), i>> : i \in titled},
                   LAMBDA scores :
                LET best == CHOOSE p \in scores : \A q \in scores :
                                \/ RatioLess(q[1], p[1])
                                \/ (~RatioLess(p[1], q[1]) /\ p[2] <= q[2])
                IN  IF RatioAtLeast085(best[1])
                    THEN [target |-> best[2], how |-> "title"]
                    ELSE [target |-> 0, how |-> "none"])
        ELSE [target |-> 0, how |-> "none"]

\* apply_to_episode that resets the status of the asset whatever it was.
apply_to_episode_resetting(row, link) ==
    LET k == link.file_type
        asset ==
            IF k \in Kinds
            THEN [row EXCEPT
                    !.download_url[k] = link.url,
                    !.filename[k] = link.decoded_filename,
                    !.subtitle_language =
                        IF k = "subtitle" THEN link.subtitle_language ELSE @,
                    !.status[k] = PENDING]
            ELSE row
    IN  [asset EXCEPT
            !.hash_code = IF link.hash_code # "" THEN link.hash_code ELSE @,
            !.episode_number =
                IF link.episode_number # 0 /\ @ = 0 THEN link.episode_number ELSE @,
            !.title_en =
                IF link.episode_title # NoTitle /\ @ = NoTitle
                THEN link.episode_title ELSE @,
            !.sort_order =
                IF @ = 0 /\ link.episode_number # 0 THEN link.episode_number ELSE @]

\* LinkMatcher._apply_to_episode on the columns of a row.
apply_to_episode(row, link) ==
    LET k == link.file_type
        asset ==
            IF k \in Kinds
            THEN [row EXCEPT
                    !.download_url[k] = link.url,
                    !.filename[k] = link.decoded_filename,
                    !.subtitle_language =
                        IF k = "subtitle" THEN link.subtitle_language ELSE @,
                    !.status[k] = IF @ \in {ERROR, DOWNLOADED} THEN PENDING ELSE @]
            ELSE row
    IN  [asset EXCEPT
            !.hash_code = IF link.hash_code # "" THEN link.hash_code ELSE @,
            !.episode_number =
                IF link.episode_number # 0 /\ @ = 0 THEN link.episode_number ELSE @,
            !.title_en =
                IF link.episode_title # NoTitle /\ @ = NoTitle
                THEN link.episode_title ELSE @,
            !.sort_order =
                IF @ = 0 /\ link.episode_number # 0 THEN link.episode_number ELSE @]

\* The state of the loop of LinkMatcher.apply before its first link.
\* details carries, beside url, result and episode_id, the lookup that
\* resolved the link, the ids of the rows that owned its filename and the id
\* of the row by_filename held for it (0: none).
ApplyStart(rows) ==
    [rows |-> rows,
     by_number |-> by_number_of(rows),
     by_filename |-> by_filename_of(rows),
     seen_urls |-> {},
     matched |-> 0, created |-> 0, unmatched |-> 0, duplicates |-> 0,
     details |-> <<>>]

Owners(rows, link) ==
    {rows[i].id : i \in {x \in DOMAIN rows :
                            filename_lower(link.decoded_filename) \in FilenameKeys(rows[x])}}

Indexed(acc, link) ==
    IF filename_lower(link.decoded_filename) \in DOMAIN acc.by_filename
    THEN acc.rows[acc.by_filename[filename_lower(link.decoded_filename)]].id
    ELSE 0

Detail(link, result, id, how, owners, indexed) ==
    [url |-> link.url, result |-> result, episode_id |-> id,
     how |-> how, owners |-> owners, indexed |-> indexed]

\* ApplyStep that does not enter a created episode into by_number.
ApplyStepUnindexed(acc, link, apply_changes) ==
    Value(match_episode(link, acc.rows, acc.by_number, acc.by_filename), LAMBDA m :
    LET owners == Owners(acc.rows, link)
    IN  IF link.url \in acc.seen_urls
        THEN [acc EXCEPT !.duplicates = @ + 1,
                         !.details = Append(@, Detail(link, "duplicate", 0, "none", {}, 0))]
        ELSE IF m.target # 0
        THEN LET row == apply_to_episode(acc.rows[m.target], link)
             IN  [acc EXCEPT
                    !.seen_urls = @ \union {link.url},
                    !.matched = @ + 1,
                    !.details = Append(@, Detail(link, "matched",
                                                 acc.rows[m.target].id, m.how, owners,
                                                 Indexed(acc, link))),
                    !.rows = IF apply_changes THEN [@ EXCEPT ![m.target] = row] ELSE @,
                    !.by_filename =
                        IF apply_changes
                        THEN update_filename_index(@, m.target, row) ELSE @]
        ELSE IF link.episode_number = 0
        THEN [acc EXCEPT !.seen_urls = @ \union {link.url},
                         !.unmatched = @ + 1,
                         !.details = Append(@, Detail(link, "unmatched", 0, m.how, owners,
                                                      Indexed(acc, link)))]
        ELSE LET id == NextId(acc.rows)
                 row == apply_to_episode(
                            [NewRow(id, link.episode_number, link.episode_title)
                                EXCEPT !.hash_code = link.hash_code],
                            link)
                 n == Len(acc.rows) + 1
             IN  [acc EXCEPT
                    !.seen_urls = @ \union {link.url},
                    !.created = @ + 1,
                    !.details = Append(@, Detail(link, "created",
                                                 IF apply_changes THEN id ELSE 0,
                                                 m.how, owners, Indexed(acc, link))),
                    !.rows = IF apply_changes THEN Append(@, row) ELSE @,
                    !.by_filename =
                        IF apply_changes THEN update_filename_index(@, n, row) ELSE @])

\* ApplyStep that does not look a URL up in seen_urls.
ApplyStepRepeating(acc, link, apply_changes) ==
    Value(match_episode(link, acc.rows, acc.by_number, acc.by_filename), LAMBDA m :
    LET owners == Owners(acc.rows, link)
    IN  IF m.target # 0
        THEN LET row == apply_to_episode(acc.rows[m.target], link)
             IN  [acc EXCEPT
                    !.seen_urls = @ \union {link.url},
                    !.matched = @ + 1,
                    !.details = Append(@, Detail(link, "matched",
                                                 acc.rows[m.target].id, m.how, owners,
                                                 Indexed(acc, link))),
                    !.rows = IF apply_changes THEN [@ EXCEPT ![m.target] = row] ELSE @,
                    !.by_filename =
                        IF apply_changes
                        THEN update_filename_index(@, m.target, row) ELSE @]
        ELSE IF link.episode_number = 0
        THEN [acc EXCEPT !.seen_urls = @ \union {link.url},
                         !.unmatched = @ + 1,
                         !.details = Append(@, Detail(link, "unmatched", 0, m.how, owners,
                                                      Indexed(acc, link)))]
        ELSE LET id == NextId(acc.rows)
                 row == apply_to_episode(
                            [NewRow(id, link.episode_number, link.episode_title)
                                EXCEPT !.hash_code = link.hash_code],
                            link)
                 n == Len(acc.rows) + 1
             IN  [acc EXCEPT
                    !.seen_urls = @ \union {link.url},
                    !.created = @ + 1,
                    !.details = Append(@, Detail(link, "created",
                                                 IF apply_changes THEN id ELSE 0,
                                                 m.how, owners, Indexed(acc, link))),
                    !.rows = IF apply_changes THEN Append(@, row) ELSE @,
                    !.by_number =
                        IF apply_changes /\ @[link.episode_number] = 0
                        THEN [@ EXCEPT ![link.episode_number] = n] ELSE @,
                    !.by_filename =
                        IF apply_changes THEN update_filename_index(@, n, row) ELSE @])

\* One iteration of `for link in links` in LinkMatcher.apply.
ApplyStep(acc, link, apply_changes) ==
    Value(match_episode(link, acc.rows, acc.by_number, acc.by_filename), LAMBDA m :
    LET owners == Owners(acc.rows, link)
    IN  IF link.url \in acc.seen_urls
        THEN [acc EXCEPT !.duplicates = @ + 1,
                         !.details = Append(@, Detail(link, "duplicate", 0, "none", {}, 0))]
        ELSE IF m.target # 0
        THEN LET row == apply_to_episode(acc.rows[m.target], link)
             IN  [acc EXCEPT
                    !.seen_urls = @ \union {link.url},
                    !.matched = @ + 1,
                    !.details = Append(@, Detail(link, "matched",
                                                 acc.rows[m.target].id, m.how, owners,
                                                 Indexed(acc, link))),
                    !.rows = IF apply_changes THEN [@ EXCEPT ![m.target] = row] ELSE @,
                    !.by_filename =
                        IF apply_changes
                        THEN update_filename_index(@, m.target, row) ELSE @]
        ELSE IF link.episode_number = 0
        THEN [acc EXCEPT !.seen_urls = @ \union {link.url},
                         !.unmatched = @ + 1,
                         !.details = Append(@, Detail(link, "unmatched", 0, m.how, owners,
                                                      Indexed(acc, link)))]
        ELSE LET id == NextId(acc.rows)
                 row == apply_to_episode(
                            [NewRow(id, link.episode_number, link.episode_title)
                                EXCEPT !.hash_code = link.hash_code],
                            link)
                 n == Len(acc.rows) + 1
             IN  [acc EXCEPT
                    !.seen_urls = @ \union {link.url},
                    !.created = @ + 1,
                    !.details = Append(@, Detail(link, "created",
                                                 IF apply_changes THEN id ELSE 0,
                                                 m.how, owners, Indexed(acc, link))),
                    !.rows = IF apply_changes THEN Append(@, row) ELSE @,
                    !.by_number =
                        IF apply_changes /\ @[link.episode_number] = 0
                        THEN [@ EXCEPT ![link.episode_number] = n] ELSE @,
                    !.by_filename =
                        IF apply_changes THEN update_filename_index(@, n, row) ELSE @])

RECURSIVE ApplyLoop(_, _, _, _)
ApplyLoop(acc, links, i, apply_changes) ==
    IF i > Len(links) THEN acc
    ELSE Value(ApplyStep(acc, links[i], apply_changes), LAMBDA next :
            ApplyLoop(next, links, i + 1, apply_changes))

\* LinkMatcher.apply whatever apply_changes says.
LinkMatcher_apply_always(rows, links, apply_changes) ==
    Value(ApplyStart(rows), LAMBDA start :
    Value(ApplyLoop(start, links, 1, TRUE), LAMBDA acc :
        [rows |-> acc.rows,
         result |-> [matched |-> acc.matched, created |-> acc.created,
                     unmatched |-> acc.unmatched, duplicates |-> acc.duplicates,
                     details |-> acc.details]]))

\* LinkMatcher.apply: the rows it leaves in the table and its MatchResult.
LinkMatcher_apply(rows, links, apply_changes) ==
    Value(ApplyStart(rows), LAMBDA start :
    Value(ApplyLoop(start, links, 1, apply_changes), LAMBDA acc :
        [rows |-> acc.rows,
         result |-> [matched |-> acc.matched, created |-> acc.created,
                     unmatched |-> acc.unmatched, duplicates |-> acc.duplicates,
                     details |-> acc.details]]))

\* _deduplicate_course_episodes: the group key of a row, the rows of a
\* group, the survivor of a group, the merge of the losers into it.
GroupKey(row) == <<row.episode_number, str_lower(str_strip(row.title_en))>>

Group(rows, i) ==
    {j \in DOMAIN rows :
        rows[j].episode_number # 0 /\ GroupKey(rows[j]) = GroupKey(rows[i])}

PopulatedUrls(row) == Cardinality({k \in Kinds : row.download_url[k] # ""})

\* The first row of the group, whatever its URLs.
PrimaryFirst(rows, group) == CHOOSE i \in group : \A j \in group : i <= j

\* max(group, key=...): the first row of the group with the most URLs.
Primary(rows, group) ==
    CHOOSE i \in group : \A j \in group :
        \/ PopulatedUrls(rows[i]) > PopulatedUrls(rows[j])
        \/ (PopulatedUrls(rows[i]) = PopulatedUrls(rows[j]) /\ i <= j)

MergeCandidate(primary, candidate) ==
    LET takes == {k \in Kinds :
                     primary.download_url[k] = "" /\ candidate.download_url[k] # ""}
    IN  [primary EXCEPT
            !.download_url =
                [k \in Kinds |-> IF k \in takes THEN candidate.download_url[k] ELSE @[k]],
            !.filename =
                [k \in Kinds |->
                    IF k \in takes /\ @[k] = NoFile THEN candidate.filename[k] ELSE @[k]],
            !.subtitle_language =
                IF "subtitle" \in takes /\ @ = None
                THEN candidate.subtitle_language ELSE @]

RECURSIVE MergeGroup(_, _, _)
MergeGroup(primary, rows, losers) ==
    IF losers = {} THEN primary
    ELSE LET j == CHOOSE x \in losers : \A y \in losers : x <= y
         IN  MergeGroup(MergeCandidate(primary, rows[j]), rows, losers \ {j})

RECURSIVE Survivors(_, _)
Survivors(rows, i) ==
    IF i > Len(rows) THEN <<>>
    ELSE LET group == Group(rows, i)
             rest == Survivors(rows, i + 1)
         IN  IF Cardinality(group) <= 1 THEN <<rows[i]>> \o rest
             ELSE IF i = Primary(rows, group)
             THEN <<MergeGroup(rows[i], rows, group \ {i})>> \o rest
             ELSE rest

deduplicate_course_episodes(rows) == Survivors(rows, 1)

\* The curriculum the scraper extracts: the items of the page, those with an
\* already seen number:title key left out, sorted by number.
CurriculumItems ==
    <<[episode_number |-> 1, title_en |-> <<"i", "n", "t">>],
      [episode_number |-> 1, title_en |-> <<"s", "e", "t">>],
      [episode_number |-> 2, title_en |-> <<"i", "n", "t", "o">>]>>

RECURSIVE Pick(_, _, _)
Pick(items, keep, i) ==
    IF i > Len(items) THEN <<>>
    ELSE (IF i \in keep THEN <<items[i]>> ELSE <<>>) \o Pick(items, keep, i + 1)

Curricula ==
    {Pick(CurriculumItems, keep, 1) : keep \in SUBSET DOMAIN CurriculumItems} \ {<<>>}

\* The loop of scrape_course_metadata over data.episodes; existing_numbers
\* is read once, before the loop.
RECURSIVE ScrapeLoop(_, _, _, _)
ScrapeLoop(rows, items, i, existing_numbers) ==
    IF i > Len(items) THEN rows
    ELSE ScrapeLoop(
            IF items[i].episode_number \in existing_numbers THEN rows
            ELSE Append(rows, NewRow(NextId(rows), items[i].episode_number,
                                     items[i].title_en)),
            items, i + 1, existing_numbers)

scrape_episodes(rows, items) ==
    ScrapeLoop(rows, items, 1,
               {rows[x].episode_number : x \in DOMAIN rows} \ {0})

\* ------------------------------------------------- operations on the catalog
NoResult ==
    [matched |-> 0, created |-> 0, unmatched |-> 0, duplicates |-> 0,
     details |-> <<>>]

\* The catalog after an operation other than a link submission.
Touched(op, rows) ==
    [op |-> op, n |-> catalog.n + 1, rows |-> rows, before |-> catalog.rows,
     merged |-> <<>>, batch |-> <<>>, apply |-> FALSE,
     result |-> NoResult, first |-> NoResult,
     edited |-> catalog.edited \/ op = "update_episode"]

\* The catalog after add_or_update_links: the duplicate merge, then
\* LinkMatcher.apply on the merged rows.
Submitted(op, links, apply_changes, first) ==
    Value(deduplicate_course_episodes(catalog.rows), LAMBDA merged :
    Value(LinkMatcher_apply(merged, links, apply_changes), LAMBDA out :
        [op |-> op, n |-> catalog.n + 1, rows |-> out.rows,
         before |-> catalog.rows, merged |-> merged, batch |-> links,
         apply |-> apply_changes, result |-> out.result, first |-> first,
         edited |-> catalog.edited]))

CatalogGuard ==
    /\ catalog # NoCatalog
    /\ catalog.n < MaxSubmissions

\* POST /courses/{id}/scrape/ : the episode part of scrape_course_metadata.
scrape_episodes_task(items) ==
    /\ CatalogGuard
    /\ catalog' = Touched("scrape", scrape_episodes(catalog.rows, items))
    /\ UNCHANGED <<episodes, course, job, calls, probe>>

\* PUT /episodes/{id}/ with title_en set (NoTitle: null or '').
update_episode(i, title) ==
    /\ CatalogGuard
    /\ i \in DOMAIN catalog.rows
    /\ title # catalog.rows[i].title_en
    /\ catalog' = Touched("update_episode",
                          [catalog.rows EXCEPT ![i].title_en = title])
    /\ UNCHANGED <<episodes, course, job, calls, probe>>

\* A download run over one episode: every asset with a URL ends DOWNLOADED
\* or ERROR.
download_run(i, status) ==
    /\ CatalogGuard
    /\ i \in DOMAIN catalog.rows
    /\ \E k \in Kinds : catalog.rows[i].download_url[k] # ""
    /\ catalog' = Touched("download",
            [catalog.rows EXCEPT ![i].status =
                [k \in Kinds |->
                    IF catalog.rows[i].download_url[k] # "" THEN status ELSE @[k]]])
    /\ UNCHANGED <<episodes, course, job, calls, probe>>

\* POST /courses/{id}/links/
submit_links(links, apply_changes) ==
    /\ CatalogGuard
    /\ catalog' = Submitted("links", links, apply_changes, NoResult)
    /\ UNCHANGED <<episodes, course, job, calls, probe>>

\* The same POST once more, directly after the first; it may follow the last
\* of the MaxSubmissions operations.
resubmit_links ==
    /\ catalog # NoCatalog
    /\ catalog.op = "links"
    /\ catalog' = Submitted("links_again", catalog.batch, catalog.apply,
                            catalog.result)
    /\ UNCHANGED <<episodes, course, job, calls, probe>>

InitCatalog ==
    /\ Pipeline0
    /\ probe = NoProbe
    /\ catalog = [op |-> "start", n |-> 0, rows |-> <<>>, before |-> <<>>,
                  merged |-> <<>>, batch |-> <<>>, apply |-> FALSE,
                  result |-> NoResult, first |-> NoResult, edited |-> FALSE]

NextCatalog ==
    \/ \E items \in Curricula : scrape_episodes_task(items)
    \/ \E i \in 1..4, title \in EpisodeTitles : update_episode(i, title)
    \/ \E i \in 1..4, status \in {DOWNLOADED, ERROR} : download_run(i, status)
    \/ \E links \in CatalogBatches, apply_changes \in BOOLEAN :
            submit_links(links, apply_changes)
    \/ resubmit_links

SpecCatalog == InitCatalog /\ [][NextCatalog]_vars

\* ---------------------------------------------------------------- download engine
\* DownloadEngine.download on a destination that holds `partial` bytes, from a
\* server whose file has server_size bytes.  total_size 0 stands for None (no
\* Content-Length in the HEAD response), range -1 for no Range header.
EngineCalls ==
    {[fn |-> "download", phase |-> "head", server_size |-> size,
      total_size |-> IF known THEN size ELSE 0,
      partial |-> k, file |-> k, existing |-> k,
      range |-> -1, mode |-> "", status |-> 0, body |-> 0,
      downloaded |-> 0, downloaded_bytes |-> -1] :
        size \in 1..MaxSize, known \in BOOLEAN, k \in 0..MaxSize}

\* `existing and total_size`, without the comparison of the sizes.
ResumableAnySize(existing, total_size) == existing # 0 /\ total_size # 0

\* `existing and total_size and existing < total_size`
Resumable(existing, total_size) ==
    existing # 0 /\ total_size # 0 /\ existing < total_size

\* The statuses the server may answer with: 206 only to a Range request.
Statuses(range) == IF range = -1 THEN {200, 403} ELSE {200, 206, 403}

\* `downloaded` counted from zero.
InitialCountZero(existing) == 0

\* `downloaded = existing`
InitialCount(existing) == existing

\* The GET request: the Range header and the mode from the size on disk, the
\* status check, the fall back to a full download and the opening of the
\* destination.
EngineRequest(status) ==
    /\ probe.fn = "download"
    /\ probe.phase = "head"
    /\ LET resumable == Resumable(probe.existing, probe.total_size)
           range == IF resumable THEN probe.existing ELSE -1
           kept == resumable /\ status # 200
           existing == IF kept THEN probe.existing ELSE 0
       IN  /\ status \in Statuses(range)
           /\ probe' =
                IF status \notin {200, 206}
                THEN [probe EXCEPT !.phase = "raised", !.range = range,
                                   !.mode = IF resumable THEN "ab" ELSE "wb",
                                   !.existing = IF resumable THEN @ ELSE 0,
                                   !.status = status]
                ELSE [probe EXCEPT
                        !.phase = "writing",
                        !.range = range,
                        !.mode = IF kept THEN "ab" ELSE "wb",
                        !.existing = existing,
                        !.status = status,
                        !.file = IF kept THEN @ ELSE 0,
                        !.body = IF status = 206 THEN probe.server_size - range
                                 ELSE probe.server_size,
                        !.downloaded = InitialCount(existing)]
    /\ UNCHANGED <<episodes, course, job, calls, catalog>>

\* One chunk of response.iter_content written to the destination.
EngineWrite(chunk) ==
    /\ probe.fn = "download"
    /\ probe.phase = "writing"
    /\ chunk <= probe.body
    /\ probe' = [probe EXCEPT !.file = @ + chunk,
                              !.downloaded = @ + chunk,
                              !.body = @ - chunk]
    /\ UNCHANGED <<episodes, course, job, calls, catalog>>

\* return DownloadResult(...)
EngineReturn ==
    /\ probe.fn = "download"
    /\ probe.phase = "writing"
    /\ probe.body = 0
    /\ probe' = [probe EXCEPT !.phase = "returned",
                              !.downloaded_bytes = probe.downloaded]
    /\ UNCHANGED <<episodes, course, job, calls, catalog>>

InitEngine ==
    /\ Pipeline0
    /\ catalog = NoCatalog
    /\ probe \in EngineCalls

NextEngine ==
    \/ \E status \in {200, 206, 403} : EngineRequest(status)
    \/ \E chunk \in 1..MaxChunk : EngineWrite(chunk)
    \/ EngineReturn

SpecEngine == InitEngine /\ [][NextEngine]_vars

\* ---------------------------------------------------------------- subtitle overlaps
\* SubtitleProcessor._fix_overlaps on a list of cues; a cue is its start and
\* its end in milliseconds.
Cues == [start : 0..MaxTime, end : 0..MaxTime]
CueLists == UNION {[1..n -> Cues] : n \in 0..MaxCues}

\* The body of the loop without the test `adjusted > current.start`.
fix_overlap_unguarded(current, next_item) ==
    LET adjusted == next_item.start - 1
    IN  IF current.end > next_item.start
        THEN [current EXCEPT !.end = adjusted]
        ELSE current

\* The body of the loop: the cue `current` after the iteration.
fix_overlap(current, next_item) ==
    LET adjusted == next_item.start - 1
    IN  IF current.end > next_item.start /\ adjusted > current.start
        THEN [current EXCEPT !.end = adjusted]
        ELSE current

\* One iteration of `for index in range(len(subtitles) - 1)`.
FixOverlapsStep ==
    /\ probe.fn = "fix_overlaps"
    /\ probe.phase = "loop"
    /\ probe.index < Len(probe.subtitles)
    /\ probe' = [probe EXCEPT
                    !.subtitles[probe.index] =
                        fix_overlap(probe.subtitles[probe.index],
                                    probe.subtitles[probe.index + 1]),
                    !.index = @ + 1]
    /\ UNCHANGED <<episodes, course, job, calls, catalog>>

FixOverlapsReturn ==
    /\ probe.fn = "fix_overlaps"
    /\ probe.phase = "loop"
    /\ probe.index >= Len(probe.subtitles)
    /\ probe' = [probe EXCEPT !.phase = "returned"]
    /\ UNCHANGED <<episodes, course, job, calls, catalog>>

InitOverlaps ==
    /\ Pipeline0
    /\ catalog = NoCatalog
    /\ \E cues \in CueLists :
            probe = [fn |-> "fix_overlaps", phase |-> "loop", input |-> cues,
                     subtitles |-> cues, index |-> 1]

NextOverlaps == FixOverlapsStep \/ FixOverlapsReturn

SpecOverlaps == InitOverlaps /\ [][NextOverlaps]_vars

\* ---------------------------------------------------------------- subtitle processing
\* SubtitleProcessor.process from the cleaned cues on: overlap fixing if
\* configured, the shift, the writing of the cues.  Times are milliseconds.
RECURSIVE FixOverlapsLoop(_, _)
FixOverlapsLoop(subtitles, index) ==
    IF index >= Len(subtitles) THEN subtitles
    ELSE FixOverlapsLoop(
            [subtitles EXCEPT ![index] = fix_overlap(subtitles[index], subtitles[index + 1])],
            index + 1)

fix_overlaps(subtitles) == FixOverlapsLoop(subtitles, 1)

\* The body of the loop of _shift_timestamps.
shift_item(item, shift) ==
    LET start == IF item.start + shift < 0 THEN 0 ELSE item.start + shift
        end == item.end + shift
    IN  [start |-> start, end |-> IF end <= start THEN start + 1 ELSE end]

shift_timestamps(subtitles, shift) ==
    IF shift = 0 THEN subtitles
    ELSE [i \in DOMAIN subtitles |-> shift_item(subtitles[i], shift)]

\* _format_vtt_timestamp: the milliseconds written.
format_vtt_timestamp(value) == IF value < 0 THEN 0 ELSE value

compose_vtt(subtitles) ==
    [i \in DOMAIN subtitles |->
        [start |-> format_vtt_timestamp(subtitles[i].start),
         end |-> format_vtt_timestamp(subtitles[i].end)]]

ProcessFixOverlaps ==
    /\ probe.fn = "process"
    /\ probe.phase = "cleaned"
    /\ probe' = [probe EXCEPT
                    !.phase = "fixed",
                    !.subtitles = IF probe.fix_overlap THEN fix_overlaps(@) ELSE @]
    /\ UNCHANGED <<episodes, course, job, calls, catalog>>

ProcessShift ==
    /\ probe.fn = "process"
    /\ probe.phase = "fixed"
    /\ probe' = [probe EXCEPT
                    !.phase = "shifted",
                    !.subtitles = shift_timestamps(@, probe.shift_seconds)]
    /\ UNCHANGED <<episodes, course, job, calls, catalog>>

ProcessWrite ==
    /\ probe.fn = "process"
    /\ probe.phase = "shifted"
    /\ probe' = [probe EXCEPT !.phase = "written",
                              !.written = compose_vtt(probe.subtitles)]
    /\ UNCHANGED <<episodes, course, job, calls, catalog>>

InitProcess ==
    /\ Pipeline0
    /\ catalog = NoCatalog
    /\ \E cues \in CueLists, shift \in (-MaxShift)..MaxShift, fix \in BOOLEAN :
            probe = [fn |-> "process", phase |-> "cleaned", input |-> cues,
                     fix_overlap |-> fix, shift_seconds |-> shift,
                     subtitles |-> cues, written |-> <<>>]

NextProcess == ProcessFixOverlaps \/ ProcessShift \/ ProcessWrite

SpecProcess == InitProcess /\ [][NextProcess]_vars

\* ---------------------------------------------------------------- bulk link parsing
\* A pasted text is a list of whitespace-separated items: words that are no
\* URL and URLs.  A URL is the file its path names (NoFile: a path that ends
\* in /) and its query string, a list of the pieces "&", "amp;" and
\* "token=t".
QueryPieces == {"&", "amp;", "token=t"}
Queries == UNION {[1..n -> QueryPieces] : n \in 0..MaxQuery}
TextItems ==
    [kind : {"url"},
     file : {NoFile, [number |-> 1, title |-> <<"i", "n", "t">>, hash |-> "", suffix |-> ".mp4"]},
     query : Queries]
    \union {[kind |-> "word", file |-> NoFile, query |-> <<>>]}
RawTexts == UNION {[1..n -> TextItems] : n \in 0..MaxText}

\* str.replace('&amp;', '&') on a query string: one pass, left to right.
RECURSIVE replace_amp_entity(_)
replace_amp_entity(q) ==
    IF Len(q) < 2 THEN q
    ELSE IF q[1] = "&" /\ q[2] = "amp;"
    THEN <<"&">> \o replace_amp_entity(SubSeq(q, 3, Len(q)))
    ELSE <<q[1]>> \o replace_amp_entity(Tail(q))

\* str.replace('amp;', '')
RECURSIVE remove_amp(_)
remove_amp(q) ==
    IF q = <<>> THEN q
    ELSE (IF Head(q) = "amp;" THEN <<>> ELSE <<Head(q)>>) \o remove_amp(Tail(q))

\* The first parameter of the query string that is not blank (parse_qs drops
\* blank ones), as its pieces; <<>> if there is none.  Every parameter of
\* the pieces at hand has the key token.
RECURSIVE first_parameter(_, _)
first_parameter(q, current) ==
    IF q = <<>> THEN current
    ELSE IF Head(q) = "&"
    THEN (IF current # <<>> THEN current ELSE first_parameter(Tail(q), <<>>))
    ELSE first_parameter(Tail(q), Append(current, Head(q)))

\* parse_link on a URL of the text: None (a record with no filename) when
\* the path names no file.
parse_text_link(link) ==
    [url |-> [file |-> link.file, query |-> link.query],
     link |-> parse_link("", link.file),
     token |-> first_parameter(remove_amp(link.query), <<>>)]

\* parse_bulk_links: the replacement of &amp;, the URLs of the text, the
\* records of those that name a file.
RECURSIVE parse_items(_)
parse_items(items) ==
    IF items = <<>> THEN <<>>
    ELSE LET item == Head(items)
             link == [item EXCEPT !.query = replace_amp_entity(@)]
         IN  (IF item.kind = "url" /\ item.file # NoFile
              THEN <<parse_text_link(link)>> ELSE <<>>)
             \o parse_items(Tail(items))

parse_bulk_links(raw_links) == parse_items(raw_links)

\* The URLs of the records, one per line.
UrlsOf(parsed) ==
    [i \in DOMAIN parsed |->
        [kind |-> "url", file |-> parsed[i].url.file, query |-> parsed[i].url.query]]

ParseBulk ==
    /\ probe.fn = "parse_bulk_links"
    /\ probe.phase = "text"
    /\ probe' = [probe EXCEPT !.phase = "parsed",
                              !.parsed = parse_bulk_links(probe.raw_links)]
    /\ UNCHANGED <<episodes, course, job, calls, catalog>>

\* The records parsed again: from their URLs joined into one text, and each
\* URL by parse_link.
ParseAgain ==
    /\ probe.fn = "parse_bulk_links"
    /\ probe.phase = "parsed"
    /\ probe' = [probe EXCEPT
                    !.phase = "reparsed",
                    !.again = parse_bulk_links(UrlsOf(probe.parsed)),
                    !.each = [i \in DOMAIN probe.parsed |->
                                parse_text_link(UrlsOf(probe.parsed)[i])]]
    /\ UNCHANGED <<episodes, course, job, calls, catalog>>

InitParse ==
    /\ Pipeline0
    /\ catalog = NoCatalog
    /\ \E text \in RawTexts :
            probe = [fn |-> "parse_bulk_links", phase |-> "text",
                     raw_links |-> text, parsed |-> <<>>, again |-> <<>>,
                     each |-> <<>>]

NextParse == ParseBulk \/ ParseAgain

SpecParse == InitParse /\ [][NextParse]_vars

\* ---------------------------------------------------------------- task dispatch
\* The four tasks of course_tasks.py share one frame: the course is looked
\* up, a missing course reports FAILURE and raises Ignore inside the try
\* block, any exception of the body reaches `except Exception`, which
\* reports FAILURE and raises Ignore.  The routes start a task on a worker
\* (delay: the request carries an id) or on a local thread (run: the
\* request id is None).
TaskNames == {"scrape_course", "process_course", "process_subtitles", "ai_translate"}
DispatchModes == {"celery", "local_background"}
NoTaskId == 0
BodyErrors == {"download failed", "disk full"}
CourseNotFound == "Course not found"
IgnoreText == ""
BackendErrorText == "task_id must not be empty"

\* Task.update_state as the task bodies call it: the call is recorded; with
\* no request id the result backend is handed the id None, which it stores
\* or rejects with an exception.
update_state(p, state, reason) ==
    [p EXCEPT !.update_calls = Append(@, [state |-> state, reason |-> reason,
                                          task_id |-> p.task_id])]

NoTask ==
    [fn |-> "task", phase |-> "idle", n |-> 0, task |-> "", mode |-> "",
     task_id |-> NoTaskId, exc |-> "", update_calls |-> <<>>,
     marked_error |-> FALSE, outcome |-> ""]

\* start_processing_pipeline and its siblings: delay on a worker, else run
\* on a background thread.
Dispatch(task, celery_worker_available) ==
    /\ probe.fn = "task"
    /\ probe.phase \in {"idle", "done"}
    /\ probe.n < MaxDispatches
    /\ probe' = [NoTask EXCEPT
                    !.phase = "queued", !.n = probe.n + 1, !.task = task,
                    !.mode = IF celery_worker_available THEN "celery"
                             ELSE "local_background",
                    !.task_id = IF celery_worker_available THEN probe.n + 1
                                ELSE NoTaskId]
    /\ UNCHANGED <<episodes, course, job, calls, catalog>>

\* The head of a task body: the lookup of the course; `if not course`
\* reports and raises Ignore, which the except clause of the same try
\* catches.
TaskLookup(found, rejected) ==
    /\ probe.fn = "task"
    /\ probe.phase = "queued"
    /\ probe' =
        IF found THEN [probe EXCEPT !.phase = "body"]
        ELSE LET reported == update_state(probe, "FAILURE", CourseNotFound)
             IN  [reported EXCEPT
                    !.phase = "except",
                    !.exc = IF probe.task_id = NoTaskId /\ rejected
                            THEN BackendErrorText ELSE IgnoreText]
    /\ UNCHANGED <<episodes, course, job, calls, catalog>>

TaskBodyRaises(reason) ==
    /\ probe.fn = "task"
    /\ probe.phase = "body"
    /\ probe' = [probe EXCEPT !.phase = "except", !.exc = reason,
                              !.marked_error = TRUE]
    /\ UNCHANGED <<episodes, course, job, calls, catalog>>

TaskBodyReturns ==
    /\ probe.fn = "task"
    /\ probe.phase = "body"
    /\ probe' = [probe EXCEPT !.phase = "done", !.outcome = "returned"]
    /\ UNCHANGED <<episodes, course, job, calls, catalog>>

\* except Exception as exc: the course, if one was found, is marked (by the
\* scrape and download tasks), FAILURE is reported with str(exc), Ignore is
\* raised; an exception of update_state leaves the handler instead.
TaskExcept(rejected) ==
    /\ probe.fn = "task"
    /\ probe.phase = "except"
    /\ probe' =
        [update_state(probe, "FAILURE", probe.exc) EXCEPT
            !.phase = "done",
            !.marked_error = @ /\ probe.task \in {"scrape_course", "process_course"},
            !.outcome = IF probe.task_id = NoTaskId /\ rejected
                        THEN "backend_error" ELSE "Ignore"]
    /\ UNCHANGED <<episodes, course, job, calls, catalog>>

InitDispatch ==
    /\ Pipeline0
    /\ catalog = NoCatalog
    /\ probe = NoTask

NextDispatch ==
    \/ \E task \in TaskNames, available \in BOOLEAN : Dispatch(task, available)
    \/ \E found \in BOOLEAN, rejected \in BOOLEAN : TaskLookup(found, rejected)
    \/ \E reason \in BodyErrors : TaskBodyRaises(reason)
    \/ TaskBodyReturns
    \/ \E rejected \in BOOLEAN : TaskExcept(rejected)

SpecDispatch == InitDispatch /\ [][NextDispatch]_vars

\* ---------------------------------------------------------------- duplicate merge
\* _deduplicate_course_episodes on the rows of a course, in creation order.
\* A row has a number (0: None), a title, and per kind a URL and a filename:
\* the matcher writes both, a PUT sets or clears the URL alone.
MergeTitles ==
    {<<"i", "n", "t">>, <<"I", "N", "T">>, <<" ", "i", "n", "t">>, <<"s", "e", "t">>}

UrlNames ==
    [video |-> <<"v1", "v2", "v3", "v4">>,
     subtitle |-> <<"s1", "s2", "s3", "s4">>,
     exercise |-> <<"x1", "x2", "x3", "x4">>]

AssetFile(id, k) ==
    [number |-> id, title |-> <<"i", "n", "t">>, hash |-> "",
     suffix |-> CASE k = "video" -> ".mp4" [] k = "subtitle" -> ".fa.srt"
                  [] OTHER -> ".pdf"]

\* The assets of a row: per kind "both" (URL and filename), "url", "file" or
\* "none".
AssetConfigs ==
    {[video |-> "none", subtitle |-> "none", exercise |-> "none"],
     [video |-> "both", subtitle |-> "none", exercise |-> "none"],
     [video |-> "file", subtitle |-> "both", exercise |-> "none"],
     [video |-> "url", subtitle |-> "both", exercise |-> "both"],
     [video |-> "none", subtitle |-> "url", exercise |-> "none"],
     [video |-> "both", subtitle |-> "file", exercise |-> "both"]}

RowWith(id, number, title, config) ==
    [NewRow(id, number, title) EXCEPT
        !.download_url =
            [k \in Kinds |-> IF config[k] \in {"both", "url"} THEN UrlNames[k][id] ELSE ""],
        !.filename =
            [k \in Kinds |-> IF config[k] \in {"both", "file"} THEN AssetFile(id, k) ELSE NoFile],
        !.subtitle_language =
            IF config.subtitle \in {"both", "file"} THEN "fa" ELSE None]

\* The rows chosen by f: the number, title and assets of each.
MergeInput(f) == [i \in DOMAIN f |-> RowWith(i, f[i][1], f[i][2], f[i][3])]

Deduplicate ==
    /\ probe.fn = "deduplicate"
    /\ probe.phase = "rows"
    /\ probe' = [probe EXCEPT !.phase = "merged",
                              !.merged = deduplicate_course_episodes(probe.rows)]
    /\ UNCHANGED <<episodes, course, job, calls, catalog>>

\* The merge of the next submission, on the rows the first one left.
DeduplicateAgain ==
    /\ probe.fn = "deduplicate"
    /\ probe.phase = "merged"
    /\ probe' = [probe EXCEPT !.phase = "again",
                              !.again = deduplicate_course_episodes(probe.merged)]
    /\ UNCHANGED <<episodes, course, job, calls, catalog>>

InitMerge ==
    /\ Pipeline0
    /\ catalog = NoCatalog
    /\ \E n \in 0..MaxRows :
       \E f \in [1..n -> {0, 1} \X MergeTitles \X AssetConfigs] :
            probe = [fn |-> "deduplicate", phase |-> "rows",
                     rows |-> MergeInput(f), merged |-> <<>>, again |-> <<>>]

NextMerge == Deduplicate \/ DeduplicateAgain

SpecMerge == InitMerge /\ [][NextMerge]_vars

\* ---------------------------------------------------------------- applying a link
\* _apply_to_episode on one episode and one link: the episode has any
\* number, title, assets, hash code and statuses, the link is one of the
\* catalog's or 001-int.txt, of no known kind.
ApplyStatuses == {PENDING, DOWNLOADING, DOWNLOADED, ERROR, UPLOADED}

EpisodeLinks ==
    CatalogLinks \union
    {parse_link("u7", [number |-> 1, title |-> <<"i", "n", "t">>, hash |-> "", suffix |-> ".txt"])}

EpisodeWith(number, title, config, hash_code, status) ==
    [RowWith(1, number, title, config) EXCEPT
        !.hash_code = hash_code, !.status = status]

ApplyOneLink ==
    /\ probe.fn = "apply_to_episode"
    /\ probe.phase = "before"
    /\ probe' = [probe EXCEPT !.phase = "applied",
                              !.after = apply_to_episode(probe.episode, probe.link)]
    /\ UNCHANGED <<episodes, course, job, calls, catalog>>

InitApply ==
    /\ Pipeline0
    /\ catalog = NoCatalog
    /\ \E number \in {0, 1, 2}, title \in {NoTitle, <<"s", "e", "t">>},
          config \in AssetConfigs, hash_code \in {"", "wxyz"},
          status \in [Kinds -> ApplyStatuses], link \in EpisodeLinks :
            probe = [fn |-> "apply_to_episode", phase |-> "before",
                     episode |-> EpisodeWith(number, title, config, hash_code, status),
                     link |-> link,
                     after |-> EpisodeWith(number, title, config, hash_code, status)]

NextApply == ApplyOneLink

SpecApply == InitApply /\ [][NextApply]_vars

\* ---------------------------------------------------------------- one submission
\* add_or_update_links on a course of at most two episodes and a batch of
\* the links above: the duplicate merge, then LinkMatcher.apply.
MatcherConfigs ==
    {[video |-> "none", subtitle |-> "none", exercise |-> "none"],
     [video |-> "both", subtitle |-> "none", exercise |-> "none"]}

MatcherBatches == UNION {[1..n -> EpisodeLinks] : n \in 1..MaxLinks}

submit_batch ==
    /\ probe.fn = "add_or_update_links"
    /\ probe.phase = "rows"
    /\ probe' =
        Value(deduplicate_course_episodes(probe.rows), LAMBDA merged :
        Value(LinkMatcher_apply(merged, probe.batch, probe.apply_changes), LAMBDA out :
            [probe EXCEPT !.phase = "applied", !.merged = merged,
                          !.after = out.rows, !.result = out.result]))
    /\ UNCHANGED <<episodes, course, job, calls, catalog>>

InitMatcher ==
    /\ Pipeline0
    /\ catalog = NoCatalog
    /\ \E n \in 0..2 :
       \E f \in [1..n -> {0, 1, 2} \X {NoTitle, <<"i", "n", "t">>} \X MatcherConfigs],
          batch \in MatcherBatches, apply_changes \in BOOLEAN :
            probe = [fn |-> "add_or_update_links", phase |-> "rows",
                     rows |-> MergeInput(f), batch |-> batch,
                     apply_changes |-> apply_changes, merged |-> <<>>,
                     after |-> <<>>, result |-> NoResult]

NextMatcher == submit_batch

SpecMatcher == InitMatcher /\ [][NextMatcher]_vars

\* ---------------------------------------------------------------- transport failures
\* One asset download as the pipeline runs it: _head under tenacity's retry
\* (stop_after_attempt(settings.download_retry_attempts), reraise), then the
\* body GET of download, which no retry wraps, then the except clause of the
\* caller.  A failure is a network error (status_code 0) or an HTTP status
\* raise_for_status rejects.
download_retry_attempts == 3
TransportFailures == {0, 403, 500}

NoTransfer ==
    [fn |-> "transfer", phase |-> "head", kind |-> "video", head_attempts |-> 0,
     get_attempts |-> 0, failed |-> "", status_code |-> 0,
     status |-> DOWNLOADING, error_message |-> None]

\* requests.head raises: tenacity waits and calls again, or reraises after
\* the last attempt.
HeadFails(status_code) ==
    /\ probe.fn = "transfer"
    /\ probe.phase = "head"
    /\ probe' = [probe EXCEPT
                    !.head_attempts = @ + 1,
                    !.status_code = status_code,
                    !.phase = IF probe.head_attempts + 1 >= download_retry_attempts
                              THEN "raised" ELSE "head",
                    !.failed = IF probe.head_attempts + 1 >= download_retry_attempts
                               THEN "head" ELSE ""]
    /\ UNCHANGED <<episodes, course, job, calls, catalog>>

HeadSucceeds ==
    /\ probe.fn = "transfer"
    /\ probe.phase = "head"
    /\ probe' = [probe EXCEPT !.head_attempts = @ + 1, !.phase = "get"]
    /\ UNCHANGED <<episodes, course, job, calls, catalog>>

\* requests.get raises, or answers a status other than 200 and 206 and
\* raise_for_status raises: the exception leaves download.
GetFails(status_code) ==
    /\ probe.fn = "transfer"
    /\ probe.phase = "get"
    /\ probe' = [probe EXCEPT !.get_attempts = @ + 1, !.phase = "raised",
                              !.failed = "get", !.status_code = status_code]
    /\ UNCHANGED <<episodes, course, job, calls, catalog>>

GetSucceeds ==
    /\ probe.fn = "transfer"
    /\ probe.phase = "get"
    /\ probe' = [probe EXCEPT !.get_attempts = @ + 1, !.phase = "returned"]
    /\ UNCHANGED <<episodes, course, job, calls, catalog>>

\* except Exception as exc, in _download_episode_assets.
CallerRecords(expired) ==
    /\ probe.fn = "transfer"
    /\ probe.phase = "raised"
    /\ expired => probe.status_code \in {401, 403, 410}
    /\ probe' = [probe EXCEPT
                    !.phase = "recorded",
                    !.status = ERROR,
                    !.error_message = build_download_error_message(probe.kind, expired)]
    /\ UNCHANGED <<episodes, course, job, calls, catalog>>

InitTransfer ==
    /\ Pipeline0
    /\ catalog = NoCatalog
    /\ \E kind \in Kinds : probe = [NoTransfer EXCEPT !.kind = kind]

NextTransfer ==
    \/ \E status_code \in TransportFailures : HeadFails(status_code)
    \/ HeadSucceeds
    \/ \E status_code \in TransportFailures : GetFails(status_code)
    \/ GetSucceeds
    \/ \E expired \in BOOLEAN : CallerRecords(expired)

SpecTransfer == InitTransfer /\ [][NextTransfer]_vars

\* ---------------------------------------------------------------- file names
\* A filename as the list of its pieces: the characters 0 1 a - _ and blank,
\* the dot, and the words ab12, cd34 (hash codes), git, ir, mp4, fa, srt and
\* txt.  A name is a stem, the marker -<hash>-git.ir or -git.ir or none, and
\* a suffix.
StemChars == {"0", "1", "a", "-", "_", " "}
Digits == {"0", "1"}
Separators == {"-", "_", " "}
HashWords == {"ab12", "cd34"}
Stems == UNION {[1..n -> StemChars] : n \in 0..MaxStem}
NameSuffixes == {<<>>, <<".", "mp4">>, <<".", "fa", ".", "srt">>, <<".", "txt">>}

FileName(stem, git, hash, suffix) ==
    stem \o (IF git THEN (IF hash # "" THEN <<"-", hash>> ELSE <<>>)
                         \o <<"-", "git", ".", "ir">>
             ELSE <<>>)
         \o suffix

\* str.endswith
EndsWith(name, tail) ==
    /\ Len(name) >= Len(tail)
    /\ SubSeq(name, Len(name) - Len(tail) + 1, Len(name)) = tail

DropLast(name, n) == SubSeq(name, 1, Len(name) - n)

\* The suffixes extract_episode_info strips, in its order, among the names
\* above: .fa.srt, .srt, .mp4.
strip_suffix(name) ==
    IF EndsWith(name, <<".", "fa", ".", "srt">>) THEN DropLast(name, 4)
    ELSE IF EndsWith(name, <<".", "srt">>) THEN DropLast(name, 2)
    ELSE IF EndsWith(name, <<".", "mp4">>) THEN DropLast(name, 2)
    ELSE name

\* re.sub(r'-[A-Za-z0-9]{4}-git\.ir$', '', stem): four alphanumerics are a
\* hash word or four single characters.
sub_hash_marker(name) ==
    IF /\ Len(name) >= 6
       /\ EndsWith(name, <<"-", "git", ".", "ir">>)
       /\ name[Len(name) - 4] \in HashWords
       /\ name[Len(name) - 5] = "-"
    THEN DropLast(name, 6)
    ELSE IF /\ Len(name) >= 9
            /\ EndsWith(name, <<"-", "git", ".", "ir">>)
            /\ \A i \in 1..4 : name[Len(name) - 3 - i] \in {"0", "1", "a"}
            /\ name[Len(name) - 8] = "-"
    THEN DropLast(name, 9)
    ELSE name

\* re.sub(r'-git\.ir$', '', stem)
sub_git_marker(name) ==
    IF EndsWith(name, <<"-", "git", ".", "ir">>) THEN DropLast(name, 4) ELSE name

\* int() of a list of digits.
RECURSIVE int_of(_)
int_of(digits) ==
    IF digits = <<>> THEN 0
    ELSE 10 * int_of(DropLast(digits, 1)) + (IF digits[Len(digits)] = "1" THEN 1 ELSE 0)

\* .replace('-', ' ').replace('_', ' ').strip()
title_text(text) ==
    str_strip([i \in DOMAIN text |-> IF text[i] \in {"-", "_"} THEN " " ELSE text[i]])

NoInfo == [number |-> -1, title |-> <<"None">>]

\* EPISODE_RE.match on a stem whose number has `width` digits: the digits,
\* the longest run of separators that leaves a character, the rest.
episode_match(stem, width) ==
    IF /\ Len(stem) >= width + 2
       /\ \A i \in 1..width : stem[i] \in Digits
       /\ stem[width + 1] \in Separators
    THEN LET k == CHOOSE x \in (width + 1)..(Len(stem) - 1) :
                    /\ \A i \in (width + 1)..x : stem[i] \in Separators
                    /\ \A y \in (x + 1)..(Len(stem) - 1) :
                            \E i \in (width + 1)..y : stem[i] \notin Separators
         IN  [number |-> int_of(SubSeq(stem, 1, width)),
              title |-> title_text(SubSeq(stem, k + 1, Len(stem)))]
    ELSE NoInfo

\* link_parser.extract_episode_info on the pieces of a filename: EPISODE_RE
\* asks for three digits.
episode_info_of(name) ==
    episode_match(sub_git_marker(sub_hash_marker(strip_suffix(name))), 3)

\* filename.split('.'): the pieces before the first dot, the pieces after it.
FirstDot(name) ==
    IF \E i \in DOMAIN name : name[i] = "."
    THEN CHOOSE i \in DOMAIN name : name[i] = "." /\ \A j \in 1..(i - 1) : name[j] # "."
    ELSE Len(name) + 1

\* str.strip('-')
RECURSIVE strip_dashes(_)
strip_dashes(text) ==
    IF text = <<>> THEN text
    ELSE IF Head(text) = "-" THEN strip_dashes(Tail(text))
    ELSE IF text[Len(text)] = "-" THEN strip_dashes(DropLast(text, 1))
    ELSE text

\* file_cleaner.clean_filename
clean_filename(name) ==
    LET dot == FirstDot(name)
        base == SubSeq(name, 1, dot - 1)
        extension == SubSeq(name, dot + 1, Len(name))
        unmarked == sub_git_marker(sub_hash_marker(base))
        cleaned == strip_dashes([i \in DOMAIN unmarked |->
                                    IF unmarked[i] = "_" THEN "-" ELSE unmarked[i]])
    IN  IF extension # <<>> THEN cleaned \o <<".">> \o extension ELSE cleaned

\* parse_link on a link with this filename.
ExtractEpisodeInfo ==
    /\ probe.fn = "filename"
    /\ probe.phase = "name"
    /\ probe' = [probe EXCEPT !.phase = "parsed",
                              !.info = episode_info_of(probe.name)]
    /\ UNCHANGED <<episodes, course, job, calls, catalog>>

\* _download_episode_assets names the target of the download, for this link
\* and for the same file under the other hash code.
CleanFilename ==
    /\ probe.fn = "filename"
    /\ probe.phase = "parsed"
    /\ probe' = [probe EXCEPT !.phase = "cleaned",
                              !.cleaned = clean_filename(probe.name),
                              !.cleaned_other = clean_filename(probe.other)]
    /\ UNCHANGED <<episodes, course, job, calls, catalog>>

InitNames ==
    /\ Pipeline0
    /\ catalog = NoCatalog
    /\ \E stem \in Stems, suffix \in NameSuffixes,
          marker \in {<<FALSE, "">>, <<TRUE, "">>, <<TRUE, "ab12">>} :
            probe = [fn |-> "filename", phase |-> "name",
                     stem |-> stem, suffix |-> suffix, marked |-> marker[1],
                     name |-> FileName(stem, marker[1], marker[2], suffix),
                     other |-> FileName(stem, marker[1],
                                        IF marker[2] = "" THEN "" ELSE "cd34", suffix),
                     info |-> NoInfo, cleaned |-> <<>>, cleaned_other |-> <<>>]

NextNames == ExtractEpisodeInfo \/ CleanFilename

SpecNames == InitNames /\ [][NextNames]_vars

\* ---------------------------------------------------------------- properties
DownloadOps == {"process_course", "download_episode"}
ProcessOps == {"process_episode", "process_subtitles"}

\* The order pending < downloading < ... < uploaded; -1 for the statuses
\* outside it (error, skipped, not_available).
Rank(status) ==
    CASE status = PENDING -> 0
      [] status = DOWNLOADING -> 1
      [] status = DOWNLOADED -> 2
      [] status = PROCESSING -> 3
      [] status = PROCESSED -> 4
      [] status = UPLOADING -> 5
      [] status = UPLOADED -> 6
      [] OTHER -> -1

KindIndex(kind) == CHOOSE i \in 1..3 : AssetKinds[i] = kind

\* The slot the worker is downloading.
CurrentSlot == Slots(job.eps)[job.pos]

\* No attempt on the episode of result `r` was begun after the one `r` ended.
LastOnEpisode(r) ==
    \A s \in job.attempted : s[1] = r[1] => KindIndex(s[2]) <= KindIndex(r[2])

Failed(outcome) == outcome \in {"invalid", "raise", "raise_expired"}

\* C1: in both download entry points engine.download is invoked (and the
\* status set to `downloading`) only for an asset that had a URL and status
\* pending or error when the handler began, and every other asset keeps the
\* status it had.
C1_DownloadOnlyFromPendingOrError ==
    job.op \in DownloadOps =>
        /\ \A s \in job.attempted :
              /\ job.snapshot[s[1]].download_url[s[2]]
              /\ job.snapshot[s[1]].status[s[2]] \in {PENDING, ERROR}
        /\ \A e \in EpisodeIds, k \in Kinds :
              <<e, k>> \notin job.attempted =>
                  episodes[e].status[k] = job.snapshot[e].status[k]

\* C2: while a handler runs and when it has ended, no asset's status is
\* lower in the order pending < ... < uploaded than it was when the handler
\* began, except downloaded -> pending by a link application (the retry
\* reset starts from error, which is outside the order).
C2_StatusMonotonic ==
    job.op # "idle" =>
        \A e \in EpisodeIds, k \in Kinds :
            LET before == job.snapshot[e].status[k]
                after == episodes[e].status[k]
            IN  (Rank(before) >= 0 /\ Rank(after) >= 0 /\ Rank(after) < Rank(before))
                    => /\ job.op = "add_or_update_links"
                       /\ before = DOWNLOADED
                       /\ after = PENDING

\* C3: an episode's retry_count exceeds its value at the start of the
\* handler by exactly the number of engine.download calls on the episode
\* that have returned or raised in a download handler, and by nothing in
\* every other handler.
C3_RetryCountCountsAttempts ==
    job.op # "idle" =>
        \A e \in EpisodeIds :
            episodes[e].retry_count =
                job.snapshot[e].retry_count
                  + (IF job.op \in DownloadOps
                     THEN Cardinality({r \in job.results : r[1] = e})
                     ELSE 0)

\* An episode on which one attempt raised and another one succeeded.
C3_Witness ==
    /\ job.op \in DownloadOps
    /\ job.phase = "done"
    /\ \E e \in EpisodeIds :
          /\ \E r \in job.results : r[1] = e /\ r[3] = "raise"
          /\ \E r \in job.results : r[1] = e /\ r[3] = "valid"
          /\ episodes[e].retry_count = 2

\* C4: after engine.download returned for a video or subtitle, the asset is
\* `downloaded` if the validator accepted the file and otherwise `error`,
\* and then (until another attempt on the episode begins) error_message is
\* the validation-failed message, in both download entry points.
C4_ValidationDecidesStatus ==
    job.op \in DownloadOps =>
        \A r \in job.results :
            (r[2] # "exercise" /\ r[3] \in {"valid", "invalid"}) =>
                IF r[3] = "valid"
                THEN episodes[r[1]].status[r[2]] = DOWNLOADED
                ELSE /\ episodes[r[1]].status[r[2]] = ERROR
                     /\ LastOnEpisode(r) =>
                            episodes[r[1]].error_message = ValidationFailedMessage(r[2])

\* C5: when a pipeline run has ended, every asset of the selected episodes
\* that had a URL and status pending or error was attempted and carries the
\* verdict of its own attempt, whatever happened to the assets before it;
\* the assets that were not attempted and the episodes that were not
\* selected are as they were.
C5_FailureIsolated ==
    (job.op = "process_course" /\ job.phase = "done") =>
        /\ \A i \in DOMAIN Slots(job.eps) :
              LET s == Slots(job.eps)[i]
              IN  (/\ job.snapshot[s[1]].download_url[s[2]]
                   /\ job.snapshot[s[1]].status[s[2]] \in {PENDING, ERROR})
                      => /\ s \in job.attempted
                         /\ \E r \in job.results : r[1] = s[1] /\ r[2] = s[2]
        /\ \A r \in job.results :
              /\ episodes[r[1]].status[r[2]] =
                    IF r[3] = "valid" \/ (r[3] = "invalid" /\ r[2] = "exercise")
                    THEN DOWNLOADED ELSE ERROR
              /\ (Failed(r[3]) /\ r[2] # "exercise" /\ LastOnEpisode(r))
                    => episodes[r[1]].error_message # None
        /\ \A e \in EpisodeIds, k \in Kinds :
              <<e, k>> \notin job.attempted =>
                  /\ episodes[e].status[k] = job.snapshot[e].status[k]
                  /\ episodes[e].local_path[k] = job.snapshot[e].local_path[k]
        /\ \A e \in EpisodeIds :
              (\A i \in DOMAIN job.eps : job.eps[i] # e) =>
                  episodes[e] = job.snapshot[e]

\* A finished run in which an asset failed and an asset of a later episode
\* was attempted after it.
C5_Witness ==
    /\ job.op = "process_course"
    /\ job.phase = "done"
    /\ \E r1, r2 \in job.results :
          /\ Failed(r1[3])
          /\ episodes[r1[1]].status[r1[2]] = ERROR
          /\ r2[1] > r1[1]

\* C6: while engine.download runs, and after the worker was terminated
\* inside it, the persisted status of the asset is `downloading`; the
\* assets whose attempt has ended are `downloaded` or `error`.
C6_DownloadingCommittedAroundAttempt ==
    job.op \in DownloadOps =>
        /\ job.phase \in {"downloading", "terminated"} =>
              episodes[CurrentSlot[1]].status[CurrentSlot[2]] = DOWNLOADING
        /\ \A r \in job.results :
              episodes[r[1]].status[r[2]] \in {DOWNLOADED, ERROR}

\* A worker terminated inside the download of an asset that was pending.
C6_Witness ==
    /\ job.op \in DownloadOps
    /\ job.phase = "terminated"
    /\ job.snapshot[CurrentSlot[1]].status[CurrentSlot[2]] = PENDING
    /\ episodes[CurrentSlot[1]].status[CurrentSlot[2]] = DOWNLOADING

\* C7: an asset with a URL that a pipeline run found in `downloading` has
\* left `downloading` when the run has ended.
C7_StaleDownloadingRetried ==
    (job.op = "process_course" /\ job.phase = "done") =>
        \A i \in DOMAIN Slots(job.eps) :
            LET s == Slots(job.eps)[i]
            IN  (/\ job.snapshot[s[1]].download_url[s[2]]
                 /\ job.snapshot[s[1]].status[s[2]] = DOWNLOADING)
                    => episodes[s[1]].status[s[2]] # DOWNLOADING

\* C8: a per-episode or bulk retry turns the statuses that were `error` on
\* the targeted episodes to `pending`, leaves every other status and every
\* other field as it was, and reports exactly the assets it changed.
C8_RetryResetsOnlyErrors ==
    job.op \in {"retry_episode", "retry_all_failed"} =>
        LET targets == IF job.op = "retry_episode" THEN {job.eps[1]} ELSE EpisodeIds
            changed == {s \in EpisodeIds \X Kinds :
                           episodes[s[1]].status[s[2]] # job.snapshot[s[1]].status[s[2]]}
        IN  /\ \A e \in EpisodeIds, k \in Kinds :
                  episodes[e].status[k] =
                      IF e \in targets /\ job.snapshot[e].status[k] = ERROR
                      THEN PENDING ELSE job.snapshot[e].status[k]
            /\ \A e \in EpisodeIds :
                  [episodes[e] EXCEPT !.status = job.snapshot[e].status] = job.snapshot[e]
            /\ job.op = "retry_episode" =>
                  /\ {<<job.eps[1], job.reset[i]>> : i \in DOMAIN job.reset} = changed
                  /\ Len(job.reset) = Cardinality(changed)
            /\ job.op = "retry_all_failed" => job.retried = Cardinality(changed)

\* A retry of an episode with a failed asset, a recorded message and a
\* counted attempt.
C8_Witness ==
    /\ job.op = "retry_episode"
    /\ job.reset # <<>>
    /\ \E k \in Kinds :
          /\ job.snapshot[job.eps[1]].status[k] = ERROR
          /\ episodes[job.eps[1]].status[k] = PENDING
    /\ episodes[job.eps[1]].error_message # None
    /\ episodes[job.eps[1]].retry_count > 0

\* C9: an error_message that was recorded when a handler began is null
\* only if the handler acted successfully on the episode: its last download
\* attempt on the episode ended in `downloaded`, its upload succeeded, or it
\* applied a link to an episode that carried the expired-link marker.
C9_MessageClearedOnlyOnSuccess ==
    job.op # "idle" =>
        \A e \in EpisodeIds :
            (job.snapshot[e].error_message # None /\ episodes[e].error_message = None)
                => \/ /\ job.op \in DownloadOps
                      /\ \E r \in job.results :
                            /\ r[1] = e
                            /\ LastOnEpisode(r)
                            /\ episodes[e].status[r[2]] = DOWNLOADED
                   \/ /\ job.op = "upload_episode"
                      /\ episodes[e].status["video"] = UPLOADED
                   \/ /\ job.op = "add_or_update_links"
                      /\ job.applied
                      /\ StartsWithExpiredPrefix(job.snapshot[e].error_message)

\* C10: processor.process is invoked only on a subtitle that was
\* `downloaded`; once it has returned the subtitle is `processed` with a
\* processed path, once it has raised the subtitle is `error` with a
\* message; no video or exercise is ever `processing` or `processed`.
C10_OnlyDownloadedSubtitleProcessed ==
    /\ job.op \in ProcessOps =>
          /\ \A s \in job.attempted :
                job.snapshot[s[1]].status["subtitle"] = DOWNLOADED
          /\ \A r \in job.results :
                IF r[3] = "valid"
                THEN /\ episodes[r[1]].status["subtitle"] = PROCESSED
                     /\ episodes[r[1]].subtitle_processed_path
                ELSE /\ episodes[r[1]].status["subtitle"] = ERROR
                     /\ episodes[r[1]].error_message # None
    /\ \A e \in EpisodeIds, k \in {"video", "exercise"} :
          episodes[e].status[k] \notin {PROCESSING, PROCESSED}

\* The three alternatives of the classification, read off the exception.
ExpiryEvidence(exc) ==
    \/ exc.status_code \in {401, 403, 410}
    \/ /\ exc.status_code = 404
       /\ \E i \in DOMAIN exc.message : LowerWord(exc.message[i]) \in {"token", "hash"}
    \/ \E i \in DOMAIN exc.message :
          \/ LowerWord(exc.message[i]) \in {"expired", "forbidden", "signature"}
          \/ /\ i < Len(exc.message)
             /\ <<LowerWord(exc.message[i]), LowerWord(exc.message[i + 1])>>
                    \in {<<"token", "expired">>, <<"invalid", "token">>}

\* C11 (as stated): is_expired_link_error returns true exactly when the
\* URL's query string has a `token` and a `hash` parameter and the status
\* is 401/403/410, or 404 with 'token' or 'hash' in the text, or the text
\* carries one of the hints.
C11_ExpiredIffBothParametersPresent ==
    (probe.fn = "is_expired_link_error" /\ probe.returned) =>
        (probe.out <=>
            /\ probe.url.given
            /\ probe.url.token # "absent"
            /\ probe.url.hash # "absent"
            /\ ExpiryEvidence(probe.exc))

\* C11 (amended): is_expired_link_error returns true exactly when the
\* URL's query string has a `token` and a `hash` parameter that both carry
\* a non-blank value and the status is 401/403/410, or 404 with 'token' or
\* 'hash' in the text, or the text carries one of the hints; a missing URL
\* or a URL lacking either parameter is never classified as expired.
C11_ExpiredIffBothParametersValued ==
    (probe.fn = "is_expired_link_error" /\ probe.returned) =>
        (probe.out <=>
            /\ probe.url.given
            /\ probe.url.token = "value"
            /\ probe.url.hash = "value"
            /\ ExpiryEvidence(probe.exc))

\* A 404 on a tokenized URL classified as expired on the word 'hash' alone.
C11_Witness ==
    /\ probe.fn = "is_expired_link_error"
    /\ probe.returned
    /\ probe.out
    /\ probe.exc.status_code = 404
    /\ probe.exc.message = <<"hash">>

\* C12: a handler logs the 'download links have expired' warning once if
\* the course's flag was not set when it began and one of its attempts
\* failed as expired, and never otherwise: however many expired failures
\* follow the one that set the flag, in either download entry point.
C12_ExpiredWarningOnce ==
    job.op # "idle" =>
        job.warnings =
            IF /\ ~job.expired
               /\ job.op \in DownloadOps
               /\ \E r \in job.results : r[3] = "raise_expired"
            THEN 1 ELSE 0

\* A handler that met two expired failures and logged one warning.
C12_Witness ==
    /\ job.op \in DownloadOps
    /\ job.phase = "done"
    /\ \E r1, r2 \in job.results :
          r1 # r2 /\ r1[3] = "raise_expired" /\ r2[3] = "raise_expired"
    /\ job.warnings = 1
    /\ course.links_expired

\* C13: the course's expiry flag becomes set only in a download handler
\* one of whose attempts failed as expired, and a flag that was set when a
\* handler began is unset only by a link submission with apply_changes
\* whose result matched (or created) at least one episode: every other
\* handler, the metadata scrape among them, leaves it set.
C13_FlagClearedOnlyByAppliedLinks ==
    job.op # "idle" =>
        /\ (~job.expired /\ course.links_expired) =>
              /\ job.op \in DownloadOps
              /\ \E r \in job.results : r[3] = "raise_expired"
        /\ (job.expired /\ ~course.links_expired) =>
              /\ job.op = "add_or_update_links"
              /\ job.applied
              /\ job.matched > 0

\* The catalog holds the outcome of a link submission.
SubmissionDone == catalog # NoCatalog /\ catalog.op \in {"links", "links_again"}

\* C14: a link whose decoded filename equals, ignoring case, an asset
\* filename stored on an episode is matched to an episode that owns that
\* filename, whatever its number and whichever episode its number or its
\* title would select.
C14_FilenameOwnerWins ==
    SubmissionDone =>
        \A i \in DOMAIN catalog.result.details :
            LET d == catalog.result.details[i]
            IN  (d.result # "duplicate" /\ d.owners # {}) =>
                    (d.result = "matched" /\ d.episode_id \in d.owners)

\* The second link of a batch goes to the owner of its filename although the
\* first link has just created the episode of its number.
C14_Witness ==
    /\ SubmissionDone
    /\ Len(catalog.batch) = 2
    /\ catalog.batch[1].episode_number = catalog.batch[2].episode_number
    /\ catalog.result.details[1].result = "created"
    /\ catalog.result.details[2].result = "matched"
    /\ catalog.result.details[2].owners # {}
    /\ catalog.result.details[2].episode_id \in catalog.result.details[2].owners
    /\ \E j \in DOMAIN catalog.rows :
            /\ catalog.rows[j].id = catalog.result.details[2].episode_id
            /\ catalog.rows[j].episode_number # catalog.batch[2].episode_number

\* The links of the batch that carry number n and are not repeated URLs,
\* whether n was unknown to the matcher, the episodes of number n.
Carrying(n) ==
    {i \in DOMAIN catalog.batch :
        /\ catalog.batch[i].episode_number = n
        /\ catalog.result.details[i].result # "duplicate"}
First(n) == CHOOSE i \in Carrying(n) : \A j \in Carrying(n) : i <= j
Unknown(n) ==
    \A j \in DOMAIN catalog.merged : catalog.merged[j].episode_number # n
Numbered(n) ==
    {j \in DOMAIN catalog.rows : catalog.rows[j].episode_number = n}
CarriesUrls(n, id) ==
    \A i \in Carrying(n), j \in DOMAIN catalog.rows :
        (/\ catalog.result.details[i].episode_id = id
         /\ catalog.rows[j].id = id
         /\ catalog.batch[i].file_type \in Kinds)
            => catalog.rows[j].download_url[catalog.batch[i].file_type] # ""

C16_DryRunLeavesEpisodes ==
    (SubmissionDone /\ ~catalog.apply) =>
        /\ catalog.rows = catalog.merged
        /\ catalog.op = "links_again" => catalog.result = catalog.first

\* A second dry run that counts a matched and a created link over stored
\* episodes.
C16_Witness ==
    /\ SubmissionDone
    /\ catalog.op = "links_again"
    /\ ~catalog.apply
    /\ catalog.result.matched > 0
    /\ catalog.result.created > 0
    /\ catalog.result = catalog.first
    /\ catalog.rows # <<>>
    /\ catalog.rows = catalog.merged

\* C17: LinkMatcher.apply run a second time on the same batch with
\* apply_changes = true, nothing having changed the episodes in between,
\* leaves the set of episodes and every column of every episode as the first
\* run left them and creates no episode.
C17_MatchingIdempotent ==
    (/\ SubmissionDone
     /\ catalog.op = "links_again"
     /\ catalog.apply
     /\ catalog.merged = catalog.before) =>
        /\ catalog.rows = catalog.before
        /\ catalog.result.created = 0

\* No two episodes with a number share number and trimmed lower-cased title.
NoDuplicates(rows) ==
    \A i, j \in DOMAIN rows :
        (i # j /\ rows[i].episode_number # 0) => GroupKey(rows[i]) # GroupKey(rows[j])

\* C18: after an applied link submission, and after any sequence of scrapes
\* and link submissions (no title edited), no two episodes with a number
\* share the pair of episode number and trimmed lower-cased title.
C18_NoDuplicateEpisodes ==
    /\ (SubmissionDone /\ catalog.apply) => NoDuplicates(catalog.rows)
    /\ (catalog # NoCatalog /\ ~catalog.edited) => NoDuplicates(catalog.rows)

\* The part of C18 about scrapes and link submissions alone.
C18_NoDuplicatesWithoutEdits ==
    (catalog # NoCatalog /\ ~catalog.edited) => NoDuplicates(catalog.rows)

\* The call found a partial file shorter than the announced total size.
Partial ==
    /\ probe.fn = "download"
    /\ 0 < probe.partial
    /\ probe.partial < probe.total_size

OverlapsFixed == probe.fn = "fix_overlaps" /\ probe.phase = "returned"
WithNext == 1..(Len(probe.input) - 1)

\* C20 as stated: after overlap fixing every cue whose end was at most the
\* next cue's start is unchanged, and every cue whose end exceeded the next
\* cue's start ends strictly before the next cue's start.
C20_OverlapsClamped ==
    OverlapsFixed =>
        \A i \in WithNext :
            /\ probe.input[i].end <= probe.input[i + 1].start =>
                    probe.subtitles[i] = probe.input[i]
            /\ probe.input[i].end > probe.input[i + 1].start =>
                    probe.subtitles[i].end < probe.subtitles[i + 1].start

\* C20 amended: after overlap fixing every cue whose end was at most the next
\* cue's start is unchanged; a cue whose end exceeded the next cue's start
\* ends one millisecond before the next cue's start if that is after its own
\* start, and is unchanged otherwise; no start and not the last cue changes.
C20_OverlapsClampedAfterStart ==
    OverlapsFixed =>
        /\ Len(probe.subtitles) = Len(probe.input)
        /\ \A i \in DOMAIN probe.input :
                /\ probe.subtitles[i].start = probe.input[i].start
                /\ i = Len(probe.input) => probe.subtitles[i] = probe.input[i]
        /\ \A i \in WithNext :
                /\ probe.input[i].end <= probe.input[i + 1].start =>
                        probe.subtitles[i] = probe.input[i]
                /\ (/\ probe.input[i].end > probe.input[i + 1].start
                    /\ probe.input[i + 1].start - 1 > probe.input[i].start) =>
                        /\ probe.subtitles[i].end = probe.input[i + 1].start - 1
                        /\ probe.subtitles[i].end < probe.subtitles[i + 1].start
                /\ (/\ probe.input[i].end > probe.input[i + 1].start
                    /\ probe.input[i + 1].start - 1 <= probe.input[i].start) =>
                        probe.subtitles[i] = probe.input[i]

\* Three cues: the first clamped, the second left as it was before a later
\* cue.
C20_Witness ==
    /\ OverlapsFixed
    /\ Len(probe.input) = 3
    /\ probe.input[1].end > probe.input[2].start
    /\ probe.subtitles[1].end = probe.input[2].start - 1
    /\ probe.subtitles[1].end > probe.subtitles[1].start
    /\ probe.input[2].end <= probe.input[3].start
    /\ probe.subtitles[2] = probe.input[2]

\* C21: whatever the configured shift and the parsed cues, every cue the
\* subtitle processor writes has start >= 0 and end > start.
C21_WrittenCuesWellFormed ==
    (probe.fn = "process" /\ probe.phase = "written") =>
        \A i \in DOMAIN probe.written :
            /\ probe.written[i].start >= 0
            /\ probe.written[i].end > probe.written[i].start

\* C22: the records parse_bulk_links returns are the records it returns for
\* the text made of their URLs, and the records parse_link returns for each
\* of their URLs, in the same order.
C22_ParsingIdempotent ==
    (probe.fn = "parse_bulk_links" /\ probe.phase = "reparsed") =>
        /\ probe.again = probe.parsed
        /\ probe.each = probe.parsed

\* The part of C22 about parse_link on each URL.
C22_EachUrlParsesAlike ==
    (probe.fn = "parse_bulk_links" /\ probe.phase = "reparsed") =>
        probe.each = probe.parsed

\* C23: a task that ran without a request id has not called update_state; a
\* task that failed with a request id has called it exactly once, with
\* FAILURE and the reason of the failure; a failed task ends by raising
\* Ignore under either dispatch.
C23_UpdateStateGuardedByTaskId ==
    (probe.fn = "task" /\ probe.phase = "done") =>
        /\ probe.task_id = NoTaskId => probe.update_calls = <<>>
        /\ (probe.task_id # NoTaskId /\ probe.outcome # "returned") =>
                /\ Len(probe.update_calls) = 1
                /\ probe.update_calls[1].state = "FAILURE"
        /\ probe.outcome \in {"returned", "Ignore"}

\* The rows of `after` that are members of the group of before[i].
KeptOf(before, after, i) ==
    {j \in DOMAIN after : \E m \in Group(before, i) : after[j].id = before[m].id}

\* Row `kept` is member p of the group, with every URL the group had: its
\* own where it had one, else a member's, with that member's filename and
\* language where p had none.
Absorbed(before, group, p, kept) ==
    /\ kept.id = before[p].id
    /\ \A m \in group : PopulatedUrls(before[p]) >= PopulatedUrls(before[m])
    /\ \A k \in Kinds :
        IF before[p].download_url[k] # ""
        THEN /\ kept.download_url[k] = before[p].download_url[k]
             /\ kept.filename[k] = before[p].filename[k]
        ELSE \/ /\ \A m \in group : before[m].download_url[k] = ""
                /\ kept.download_url[k] = ""
                /\ kept.filename[k] = before[p].filename[k]
             \/ \E m \in group :
                    /\ before[m].download_url[k] # ""
                    /\ kept.download_url[k] = before[m].download_url[k]
                    /\ kept.filename[k] =
                         IF before[p].filename[k] # NoFile
                         THEN before[p].filename[k] ELSE before[m].filename[k]
                    /\ k = "subtitle" =>
                         kept.subtitle_language =
                            IF before[p].subtitle_language # None
                            THEN before[p].subtitle_language
                            ELSE before[m].subtitle_language

\* C24: the duplicate merge keeps exactly one row of every group sharing
\* (episode_number, normalized title), a row with the most populated URLs;
\* for each kind of which a member had a URL the kept row has one, its own
\* or an absorbed one with the filename and language it lacked; a second
\* merge changes nothing.
C24_MergeKeepsRichestRow ==
    (probe.fn = "deduplicate" /\ probe.phase \in {"merged", "again"}) =>
        /\ \A i \in DOMAIN probe.rows :
                probe.rows[i].episode_number # 0 =>
                    /\ Cardinality(KeptOf(probe.rows, probe.merged, i)) = 1
                    /\ \A j \in KeptOf(probe.rows, probe.merged, i) :
                         \E p \in Group(probe.rows, i) :
                            Absorbed(probe.rows, Group(probe.rows, i), p, probe.merged[j])
        /\ probe.phase = "again" => probe.again = probe.merged

\* A group of three rows was merged: the kept row is not the first one and
\* absorbed a URL it did not have.
C24_Witness ==
    /\ probe.fn = "deduplicate"
    /\ probe.phase = "again"
    /\ Len(probe.rows) = 3
    /\ Len(probe.merged) = 1
    /\ probe.merged[1].id # 1
    /\ \E k \in Kinds :
            /\ probe.rows[probe.merged[1].id].download_url[k] = ""
            /\ probe.merged[1].download_url[k] # ""

\* C25: a link of kind k applied to an episode replaces the episode's k URL
\* and filename, and the language for a subtitle, by the link's; the k
\* status becomes pending if and only if it was error or downloaded and is
\* unchanged otherwise; URL, filename and status of the other kinds are
\* unchanged.
C25_LinkWritesItsKindOnly ==
    (probe.fn = "apply_to_episode" /\ probe.phase = "applied"
        /\ probe.link.file_type \in Kinds) =>
        LET k == probe.link.file_type
            before == probe.episode
            after == probe.after
        IN  /\ after.download_url[k] = probe.link.url
            /\ after.filename[k] = probe.link.decoded_filename
            /\ k = "subtitle" => after.subtitle_language = probe.link.subtitle_language
            /\ after.status[k] =
                    IF before.status[k] \in {ERROR, DOWNLOADED} THEN PENDING
                    ELSE before.status[k]
            /\ \A other \in Kinds \ {k} :
                    /\ after.download_url[other] = before.download_url[other]
                    /\ after.filename[other] = before.filename[other]
                    /\ after.status[other] = before.status[other]

\* A subtitle link was applied to an episode whose subtitle was being
\* downloaded and whose video had failed: the subtitle carries the link's
\* URL and is still downloading, the video is still in error.
C25_Witness ==
    /\ probe.fn = "apply_to_episode"
    /\ probe.phase = "applied"
    /\ probe.link.file_type = "subtitle"
    /\ probe.episode.download_url["subtitle"] \notin {"", probe.link.url}
    /\ probe.episode.status["subtitle"] = DOWNLOADING
    /\ probe.episode.status["video"] = ERROR
    /\ probe.after.download_url["subtitle"] = probe.link.url
    /\ probe.after.status["video"] = ERROR

\* C26: applying a link writes hash_code, episode_number and title only
\* where the episode had none, and sort_order only where it was 0.
C26_IdentityOnlyBackfilled ==
    (probe.fn = "apply_to_episode" /\ probe.phase = "applied") =>
        /\ probe.episode.hash_code # "" => probe.after.hash_code = probe.episode.hash_code
        /\ probe.episode.episode_number # 0 =>
                probe.after.episode_number = probe.episode.episode_number
        /\ probe.episode.title_en # NoTitle => probe.after.title_en = probe.episode.title_en
        /\ probe.episode.sort_order # 0 => probe.after.sort_order = probe.episode.sort_order

\* The part of C26 about episode_number, title and sort_order.
C26_NumberTitleOrderBackfilled ==
    (probe.fn = "apply_to_episode" /\ probe.phase = "applied") =>
        /\ probe.episode.episode_number # 0 =>
                probe.after.episode_number = probe.episode.episode_number
        /\ probe.episode.title_en # NoTitle => probe.after.title_en = probe.episode.title_en
        /\ probe.episode.sort_order # 0 => probe.after.sort_order = probe.episode.sort_order

\* The similarity of the title of row i to the title of the link.
TitleRatio(rows, i, link) ==
    ratio(str_lower(rows[i].title_en), str_lower(link.episode_title))

\* The rows with a title whose similarity to the link's title is at least
\* 0.85.
SimilarRows(rows, link) ==
    {i \in DOMAIN rows :
        /\ rows[i].title_en # NoTitle
        /\ link.episode_title # NoTitle
        /\ RatioAtLeast085(TitleRatio(rows, i, link))}

\* The first link of the submission has a number and a title, its filename
\* is stored on no episode and no episode has its number.
TitleStepDecides ==
    /\ SubmissionDone
    /\ catalog.batch[1].episode_number # 0
    /\ catalog.batch[1].episode_title # NoTitle
    /\ catalog.result.details[1].indexed = 0
    /\ by_number_of(catalog.merged)[catalog.batch[1].episode_number] = 0

MatcherDone ==
    /\ probe.fn = "add_or_update_links"
    /\ probe.phase = "applied"

\* C28: an episode the matcher created has a number, the title of its link,
\* the number as sort order and at least one asset URL; a link without a
\* number that matches nothing creates no episode.
C28_CreatedEpisodesCarryAnAsset ==
    (MatcherDone /\ probe.apply_changes) =>
        /\ \A n \in DOMAIN probe.result.details :
                probe.result.details[n].result = "created" =>
                    \E i \in DOMAIN probe.after :
                        /\ probe.after[i].id = probe.result.details[n].episode_id
                        /\ probe.after[i].episode_number # 0
                        /\ probe.after[i].episode_number = probe.batch[n].episode_number
                        /\ probe.after[i].title_en = probe.batch[n].episode_title
                        /\ probe.after[i].sort_order = probe.after[i].episode_number
                        /\ \E k \in Kinds : probe.after[i].download_url[k] # ""
        /\ Len(probe.after) = Len(probe.merged) + probe.result.created
        /\ \A n \in DOMAIN probe.result.details :
                (probe.batch[n].episode_number = 0
                    /\ probe.result.details[n].result # "matched") =>
                        probe.result.details[n].result \in {"unmatched", "duplicate"}

\* The part of C28 that does not concern the asset URL.
C28_CreatedEpisodesCarryIdentity ==
    (MatcherDone /\ probe.apply_changes) =>
        /\ \A n \in DOMAIN probe.result.details :
                probe.result.details[n].result = "created" =>
                    \E i \in DOMAIN probe.after :
                        /\ probe.after[i].id = probe.result.details[n].episode_id
                        /\ probe.after[i].episode_number # 0
                        /\ probe.after[i].episode_number = probe.batch[n].episode_number
                        /\ probe.after[i].title_en = probe.batch[n].episode_title
                        /\ probe.after[i].sort_order = probe.after[i].episode_number
        /\ Len(probe.after) = Len(probe.merged) + probe.result.created
        /\ \A n \in DOMAIN probe.result.details :
                (probe.batch[n].episode_number = 0
                    /\ probe.result.details[n].result # "matched") =>
                        probe.result.details[n].result \in {"unmatched", "duplicate"}

\* The positions of the batch whose URL occurred at an earlier position.
Repeated(batch) ==
    {n \in DOMAIN batch : \E e \in 1..(n - 1) : batch[e].url = batch[n].url}

\* The batch without its repeated URLs.
RECURSIVE Distinct(_, _)
Distinct(batch, n) ==
    IF n > Len(batch) THEN <<>>
    ELSE (IF n \in Repeated(batch) THEN <<>> ELSE <<batch[n]>>)
         \o Distinct(batch, n + 1)

\* C29: apply returns one details entry per link of the batch, in the order
\* of the batch; the four counts add up to the length of the batch; a link
\* whose URL occurred earlier in the batch is counted as duplicate and the
\* table is the one the batch without it leaves.
C29_OneOutcomePerLink ==
    MatcherDone =>
        /\ Len(probe.result.details) = Len(probe.batch)
        /\ \A n \in DOMAIN probe.batch :
                /\ probe.result.details[n].url = probe.batch[n].url
                /\ probe.result.details[n].result = "duplicate"
                        <=> n \in Repeated(probe.batch)
        /\ probe.result.matched + probe.result.created + probe.result.unmatched
                + probe.result.duplicates = Len(probe.batch)
        /\ probe.result.duplicates = Cardinality(Repeated(probe.batch))
        /\ probe.after =
                LinkMatcher_apply(probe.merged, Distinct(probe.batch, 1),
                                  probe.apply_changes).rows

\* A link was submitted twice in one batch and created an episode the first
\* time: one created, one duplicate, one new row.
C29_Witness ==
    /\ MatcherDone
    /\ probe.apply_changes
    /\ Len(probe.batch) = 2
    /\ probe.result.details[1].result = "created"
    /\ probe.result.details[2].result = "duplicate"
    /\ probe.result.created = 1
    /\ probe.result.duplicates = 1
    /\ Len(probe.after) = Len(probe.merged) + 1

\* C30: the engine sends Range: bytes=K- exactly when the destination holds
\* K bytes with 0 < K < the known total size, and appends exactly when it
\* did so and the server honoured the range; when the server answers a
\* ranged request with 200 the file is written from offset zero, ends as the
\* response body, and the byte count starts from zero.
C30_RangeOnlyForPartialFile ==
    (probe.fn = "download" /\ probe.phase # "head") =>
        /\ probe.range # -1 <=> Partial
        /\ Partial => probe.range = probe.partial
        /\ probe.phase \in {"writing", "returned"} =>
                (probe.mode = "ab" <=> (Partial /\ probe.status = 206))
        /\ (Partial /\ probe.status = 200) =>
                /\ probe.mode = "wb"
                /\ probe.file = probe.downloaded
                /\ probe.file + probe.body = probe.server_size
                /\ probe.phase = "returned" =>
                        /\ probe.file = probe.server_size
                        /\ probe.downloaded_bytes = probe.server_size

\* A ranged request for a file of which more than one byte was on disk was
\* answered with 200 and the download has returned the whole body.
C30_Witness ==
    /\ probe.fn = "download"
    /\ Partial
    /\ probe.partial > 1
    /\ probe.range = probe.partial
    /\ probe.status = 200
    /\ probe.phase = "returned"
    /\ probe.mode = "wb"
    /\ probe.file = probe.server_size
    /\ probe.downloaded_bytes = probe.server_size

\* C31: a download raises only after download_retry_attempts failed
\* attempts of the request that failed, the HEAD probe or the body GET, and
\* the caller then records the status error and a failure message.
C31_TransportFailureRetriedThenSurfaced ==
    (probe.fn = "transfer" /\ probe.phase \in {"raised", "recorded"}) =>
        /\ probe.failed = "head" => probe.head_attempts = download_retry_attempts
        /\ probe.failed = "get" => probe.get_attempts = download_retry_attempts
        /\ probe.phase = "recorded" =>
                (probe.status = ERROR /\ probe.error_message # None)

\* The part of C31 about the HEAD probe and the caller.
C31_HeadRetriedThenSurfaced ==
    (probe.fn = "transfer" /\ probe.phase \in {"raised", "recorded"}) =>
        /\ probe.failed = "head" => probe.head_attempts = download_retry_attempts
        /\ probe.phase = "recorded" =>
                (probe.status = ERROR /\ probe.error_message # None)

\* The stem of the name at hand, its suffix and marker stripped.
BareStem == sub_git_marker(sub_hash_marker(strip_suffix(probe.name)))

\* The width of the leading number of BareStem, when it has one to three
\* digits followed by a separator and a character; 0 otherwise.
NumberWidth ==
    IF \E w \in 1..3 : episode_match(BareStem, w) # NoInfo
    THEN CHOOSE w \in 1..3 : episode_match(BareStem, w) # NoInfo
    ELSE 0

\* C32: a stem that begins with one to three digits and a separator yields
\* that number and the rest as title, - and _ turned into blanks and
\* trimmed; any other stem yields neither.
C32_EpisodeNumberOfOneToThreeDigits ==
    (probe.fn = "filename" /\ probe.phase # "name") =>
        probe.info = IF NumberWidth = 0 THEN NoInfo
                     ELSE episode_match(BareStem, NumberWidth)

\* C32 for numbers of exactly three digits.
C32_EpisodeNumberOfThreeDigits ==
    (probe.fn = "filename" /\ probe.phase # "name") =>
        /\ NumberWidth = 3 =>
                /\ probe.info.number = int_of(SubSeq(BareStem, 1, 3))
                /\ probe.info.title = title_text(SubSeq(BareStem, 5, Len(BareStem)))
        /\ NumberWidth # 3 => probe.info = NoInfo

\* C33: the cleaned name carries no marker, keeps the suffix, and is the
\* same for the file under another hash code.
C33_CleanNameDropsMarker ==
    (probe.fn = "filename" /\ probe.phase = "cleaned") =>
        /\ probe.cleaned = probe.cleaned_other
        /\ \A i \in DOMAIN probe.cleaned : probe.cleaned[i] \notin HashWords \union {"git"}
        /\ EndsWith(probe.cleaned, probe.suffix)

\* C34: an exercise whose download left an empty or missing file is `error`
\* and not `downloaded`, in both download entry points.
C34_EmptyExerciseIsError ==
    job.op \in DownloadOps =>
        \A r \in job.results :
            (r[2] = "exercise" /\ r[3] = "invalid") =>
                /\ episodes[r[1]].status["exercise"] # DOWNLOADED
                /\ episodes[r[1]].status["exercise"] = ERROR

\* C35: in every committed state an episode with an asset in `error` has an
\* error_message.
C35_ErrorKeepsItsMessage ==
    \A e \in EpisodeIds :
        (\E k \in Kinds : episodes[e].status[k] = ERROR) =>
            episodes[e].error_message # None

\* C36: when a pipeline run has ended, every exercise of a selected episode
\* that carried a URL from a link application was attempted: it is
\* `downloaded` or `error`, not `not_available`.
C36_LinkedExerciseAttempted ==
    (job.op = "process_course" /\ job.phase = "done") =>
        \A i \in DOMAIN job.eps :
            (/\ job.snapshot[job.eps[i]].download_url["exercise"]
             /\ job.snapshot[job.eps[i]].status["exercise"] = NOT_AVAILABLE)
                => /\ <<job.eps[i], "exercise">> \in job.attempted
                   /\ episodes[job.eps[i]].status["exercise"] \in {DOWNLOADED, ERROR}

\* The four counts of a MatchResult.
Counts(result) ==
    <<result.matched, result.created, result.unmatched, result.duplicates>>

\* C37: the counts apply returns for a batch with apply_changes = false are
\* the counts it returns for the same batch on the same rows with
\* apply_changes = true.
C37_PreviewPredictsApplied ==
    (MatcherDone /\ ~probe.apply_changes) =>
        Counts(probe.result) =
            Counts(LinkMatcher_apply(probe.merged, probe.batch, TRUE).result)

\* C38: a link submission with apply_changes = false leaves the episode
\* table as it was before the request.
C38_DryRunLeavesPersistedState ==
    (catalog # NoCatalog /\ catalog.op \in {"links", "links_again"} /\ ~catalog.apply) =>
        catalog.rows = catalog.before

\* C39: a link with a number that was applied to an existing episode
\* carrying another number has a filename that episode stored.
C39_NumberedLinkKeepsToItsEpisode ==
    (MatcherDone /\ probe.apply_changes) =>
        \A n \in DOMAIN probe.result.details :
            (probe.result.details[n].result = "matched"
                /\ probe.batch[n].episode_number # 0) =>
                    \A i \in DOMAIN probe.merged :
                        (/\ probe.merged[i].id = probe.result.details[n].episode_id
                         /\ probe.merged[i].episode_number # 0
                         /\ probe.merged[i].episode_number # probe.batch[n].episode_number)
                            => probe.result.details[n].episode_id
                                    \in probe.result.details[n].owners

Next ==
    \/ process_course_task
    \/ \E e \in EpisodeIds : download_episode_assets(e)
    \/ \E outcome \in Outcomes : DownloadReturn(outcome)
    \/ \E e \in EpisodeIds : retry_episode(e)
    \/ retry_all_failed
    \/ \E e \in EpisodeIds, exists \in BOOLEAN : process_episode_assets(e, exists)
    \/ \E present \in SUBSET EpisodeIds : process_subtitles_task(present)
    \/ \E ok \in BOOLEAN, present \in SUBSET EpisodeIds : ProcessReturn(ok, present)
    \/ \E links \in Batches, apply_changes \in BOOLEAN :
          add_or_update_links(links, apply_changes)
    \/ \E e \in EpisodeIds : upload_episode_assets(e)
    \/ \E ok \in BOOLEAN : scrape_course_task(ok)
    \/ toggle_debug
    \/ Terminate
    \/ Return

Spec == Init /\ [][Next]_vars
====
